---------------------------- MODULE Spec2Model ----------------------------
(***************************************************************************)
(* The REPL harness of agentself: a host process (tool endpoint and attach *)
(* server) that multiplexes its clients onto one worker subprocess through *)
(* the runtime lock, the JSON-lines protocol between host and worker with  *)
(* its inline relay sub-protocol, and the hub of backend servers.          *)
(***************************************************************************)
EXTENDS Integers, Sequences, FiniteSets, TLC

(* ------------------------------ bounds -------------------------------- *)

\* command lines the host may write to worker stdin in one behaviour
MaxCmds == 2
\* worker subprocesses spawned in one behaviour (the first one and resets)
MaxWorkers == 2
\* longest timeout of a timed acquisition, in clock ticks
MaxWait == 1
\* most paths in one allowlist handed to a constructor or to derive
MaxRoots == 2
\* most commands a worker has run before its state is exported
MaxHist == 3
\* entries of one kind in a snapshot handed to import_state
MaxEntries == 2
\* most backend children spawned in one run
MaxSpawn == 3
\* most operations on the state store in one run
MaxStoreOps == 3

(* ------------------------------- data --------------------------------- *)

ToolClients == {"tool"}
AttachClients == {"attach"}
Clients == ToolClients \cup AttachClients

NoOne == "free"

Workers == 1..MaxWorkers

\* name of the one backend / relay capability of the model and its tool table
CapNames == {"math"}
ToolTable(name) == IF name = "math" THEN {"add"} ELSE {}

\* a value that json.dumps refuses (hub.call returning the raw result object)
Unserializable == "<CallToolResult>"

\* what a backend does with one call_tool
BackendReplies == {"text", "empty", "error"}

\* the backend's tool, as a function of the arguments
ToolResult(method, args) == IF args = "a=3,b=4" THEN "7" ELSE "3"

(* One line on a pipe.  seq and w are bookkeeping: seq is the number of the *)
(* host command the line is (or answers), w the worker that wrote it.       *)
Line(type) ==
    [type |-> type, seq |-> 0, w |-> 0, id |-> 0, cap |-> "", method |-> "",
     args |-> "", ok |-> FALSE, val |-> "", etype |-> "", emsg |-> "",
     code |-> "", hl |-> 0]

NoLine == Line("none")

(* ------------------------- submitted programs -------------------------- *)
(* Code sent to the worker is abstracted to what it does at the protocol   *)
(* level: whether it compiles as an expression, the calls it makes in      *)
(* order, whether it catches errors of those calls, and how it ends.       *)

Step(k, cap, method, args) == [k |-> k, cap |-> cap, method |-> method, args |-> args]

\* cap.method(**args) on a bound RelayCapability
ViaCap(cap, method, args) == Step("cap", cap, method, args)
\* _relay(cap, method, args) called directly (repl.py:187 puts it in the namespace)
Direct(cap, method, args) == Step("direct", cap, method, args)
\* print(...) through sys.stdout
StdoutWrite == Step("print", "", "", "")
\* sys.__stdout__.write(<not json>)
RawWrite == Step("raw", "", "", "")

Prog(expr, steps, catches, outcome) ==
    [expr |-> expr, steps |-> steps, catches |-> catches, outcome |-> outcome]

Codes == {"1+1", "x=1", "1/0", "math.add(a=3,b=4)", "_relay(1,2);_relay(3,4)",
          "(_relay(3,4),eval('1+'))", "try:_relay(nosuch) except:pass",
          "_relay(1,2);sys.__stdout__.write('x');_relay(3,4)", "sys.exit()",
          "try:math.add(a=3,b=4) except:pass"}

Program(code) ==
    CASE code = "1+1" -> Prog(TRUE, <<>>, FALSE, "value")
      [] code = "x=1" -> Prog(FALSE, <<>>, FALSE, "none")
      [] code = "1/0" -> Prog(TRUE, <<>>, FALSE, "raise")
      [] code = "math.add(a=3,b=4)" ->
            Prog(TRUE, <<ViaCap("math", "add", "a=3,b=4")>>, FALSE, "value")
      [] code = "_relay(1,2);_relay(3,4)" ->
            Prog(FALSE, <<Direct("math", "add", "a=1,b=2"),
                          Direct("math", "add", "a=3,b=4")>>, FALSE, "none")
      [] code = "(_relay(3,4),eval('1+'))" ->
            Prog(TRUE, <<Direct("math", "add", "a=3,b=4")>>, FALSE, "raiseSyntax")
      [] code = "try:_relay(nosuch) except:pass" ->
            Prog(FALSE, <<Direct("math", "nosuch", "a=1,b=2")>>, TRUE, "none")
      [] code = "_relay(1,2);sys.__stdout__.write('x');_relay(3,4)" ->
            Prog(FALSE, <<Direct("math", "add", "a=1,b=2"), RawWrite,
                          Direct("math", "add", "a=3,b=4")>>, FALSE, "none")
      [] code = "sys.exit()" -> Prog(TRUE, <<>>, FALSE, "exit")
      [] code = "try:math.add(a=3,b=4) except:pass" ->
            Prog(FALSE, <<ViaCap("math", "add", "a=3,b=4")>>, TRUE, "none")
      [] code = "print('hi')" -> Prog(FALSE, <<StdoutWrite>>, FALSE, "none")
      [] OTHER -> Prog(FALSE, <<>>, FALSE, "none")

(* ------------------------------- state -------------------------------- *)

VARIABLES
    lock,           \* runtime.lock: the client holding it, or NoOne
    pc,             \* per client: where its request handler stands
    req,            \* per client: the request being handled
    rsp,            \* per client: outcome of the last finished request
    pend,           \* per client: the line last read from the worker
    runtime_repl,   \* runtime.repl: the worker the runtime owns
    server_repl,    \* `repl` bound by create_server (server.py:47)
    nWorkers,       \* workers spawned so far
    wk,             \* per worker: process state, pipes, interpreter state
    backends,       \* hub.backends: name -> instance number, 0 = absent
    hub_lock,       \* hub._lock (asyncio.Lock): holder or NoOne
    nInstalls,      \* backend sessions the hub has opened so far
    nSent,          \* bookkeeping: command lines written so far
    outstanding,    \* bookkeeping: per worker, commands written, answer unread:
                    \* records of the command's number, client and operation
    calls,          \* bookkeeping: per client, relay handler calls of its request
    answered,       \* bookkeeping: per worker, relay ids the host has answered
    fcap,           \* a file capability, the one derived from it, the last call
    scap,           \* a shell capability, the one derived from it, the last call
    rt              \* a worker, the snapshot exported from it, the worker it went to

\* the capability objects and the snapshot, which the harness processes above
\* never touch
capVars == <<fcap, scap, rt>>

\* no capability object of that kind has been constructed
NoCap == [kind |-> "none"]

vars == <<lock, pc, req, rsp, pend, runtime_repl, server_repl, nWorkers, wk,
          backends, hub_lock, nInstalls, nSent, outstanding, calls, answered,
          fcap, scap, rt>>

\* everything but the capability objects
harnessVars == <<lock, pc, req, rsp, pend, runtime_repl, server_repl, nWorkers, wk,
                 backends, hub_lock, nInstalls, nSent, outstanding, calls, answered>>

hostVars == <<lock, pc, req, rsp, pend, runtime_repl, server_repl, nWorkers,
              backends, hub_lock, nInstalls, nSent, outstanding, calls, answered,
              fcap, scap, rt>>

(* ------------------------------ worker -------------------------------- *)

\* REPL_BOOTSTRAP module state right after start, REPLSubprocess.__init__ done.
\* handler is the host object's relay_handler attribute; first, passes and
\* extra are bookkeeping about the command being served.
FreshWorker ==
    [alive |-> TRUE, handler |-> TRUE, stdin |-> <<>>, stdout |-> <<>>,
     wpc |-> "idle", cur |-> NoLine, phase |-> "", ip |-> 0, relay_id |-> 0,
     hist |-> 0, ns |-> {}, caps |-> {}, ret |-> "", first |-> 0,
     passes |-> 0, extra |-> 0]

\* REPLSubprocess(relay_handler=h)
REPLSubprocess(h) == [FreshWorker EXCEPT !.handler = h]

\* a process not started yet
NoWorker == [FreshWorker EXCEPT !.alive = FALSE, !.wpc = "none"]

\* the process is gone, and its interpreter state with it; what it wrote to
\* its stdout before can still be read from the pipe
Exited(r) ==
    [NoWorker EXCEPT !.wpc = "dead", !.handler = r.handler, !.stdout = r.stdout]

\* print(json.dumps(response), flush=True) at the end of one loop turn
Respond(r, line) ==
    [r EXCEPT !.stdout = Append(@, [line EXCEPT !.seq = r.cur.seq, !.w = r.cur.w]),
              !.wpc = "idle", !.cur = NoLine, !.phase = "", !.ip = 0, !.ret = "",
              !.first = 0, !.passes = 0, !.extra = 0]

\* the result record _execute builds when the code raised
ExecuteFailure(r, etype, emsg) ==
    Respond(r, [Line("execute_result") EXCEPT !.ok = FALSE, !.etype = etype,
                                              !.emsg = emsg, !.hl = r.hist])

\* the result record _execute builds when the code ran to its end
ExecuteSuccess(r) ==
    LET p == Program(r.cur.code)
        r1 == [r EXCEPT !.hist = @ + 1,
                        !.ns = IF p.outcome = "none" /\ p.steps = <<>>
                               THEN @ \cup {"x"} ELSE @]
    IN  Respond(r1, [Line("execute_result") EXCEPT
                        !.ok = TRUE, !.hl = r1.hist,
                        !.val = IF r.phase = "eval"
                                THEN (IF p.steps = <<>> THEN "2" ELSE r.ret)
                                ELSE ""])

\* the record _import_state returns; history is replaced by the payload's
ImportDone(r, restored) ==
    LET r1 == [r EXCEPT !.hist = r.cur.hl,
                        !.ns = IF restored THEN @ \cup {"f"} ELSE @]
    IN  Respond(r1, [Line("import_result") EXCEPT !.ok = restored, !.hl = r1.hist])

\* the submitted code ends one evaluation without an exception
Ended(r) ==
    IF r.phase = "import" THEN ImportDone(r, TRUE) ELSE ExecuteSuccess(r)

\* an exception leaves the submitted code: _execute lines 208-223 and
\* _import_state lines 437-441
Uncaught(r, etype, emsg) ==
    IF r.phase = "import" THEN ImportDone(r, FALSE)
    ELSE IF r.phase = "eval" /\ etype = "SyntaxError"
         THEN [r EXCEPT !.phase = "exec", !.ip = 1, !.passes = @ + 1, !.wpc = "run"]
         ELSE ExecuteFailure(r, etype, emsg)

\* an exception is raised by the call at the current step
Raised(r, etype, emsg) ==
    IF Program(r.cur.code).catches
    THEN [r EXCEPT !.ip = @ + 1, !.wpc = "run"]
    ELSE Uncaught(r, etype, emsg)

\* _relay writing its request under the id of the request before
RelayEmit_reused(r, step) ==
    [r EXCEPT !.stdout = Append(@, [Line("relay_request") EXCEPT
                                      !.id = r.relay_id, !.cap = step.cap,
                                      !.method = step.method, !.args = step.args,
                                      !.seq = r.cur.seq, !.w = r.cur.w]),
              !.wpc = "relay"]

\* _relay up to the blocking readline: bump the counter, write the request
RelayEmit(r, step) ==
    [r EXCEPT !.relay_id = @ + 1,
              !.stdout = Append(@, [Line("relay_request") EXCEPT
                                      !.id = r.relay_id + 1, !.cap = step.cap,
                                      !.method = step.method, !.args = step.args,
                                      !.seq = r.cur.seq, !.w = r.cur.w]),
              !.wpc = "relay"]

\* _relay returning response.get("result") whatever "success" says
RelayReturn_unchecked(r, line) ==
    IF line.type # "relay_response"
    THEN Raised(r, "RuntimeError", "Unexpected response type")
    ELSE IF line.id # r.relay_id
    THEN Raised(r, "RuntimeError", "Response ID mismatch")
    ELSE [r EXCEPT !.ret = line.val, !.ip = @ + 1, !.wpc = "run"]

\* _relay after the readline: check the line, return the result or raise
\* RuntimeError (for a failed call, "Relay call failed: " and the message)
RelayReturn(r, line) ==
    IF line.type # "relay_response"
    THEN Raised(r, "RuntimeError", "Unexpected response type")
    ELSE IF line.id # r.relay_id
    THEN Raised(r, "RuntimeError", "Response ID mismatch")
    ELSE IF line.ok
    THEN [r EXCEPT !.ret = line.val, !.ip = @ + 1, !.wpc = "run"]
    ELSE Raised(r, "RuntimeError", line.emsg)

\* a line written to the real stdout that is not a protocol line
RawLine(r) == [Line("raw") EXCEPT !.seq = r.cur.seq, !.w = r.cur.w]

\* the interpreter runs the next step of the submitted code
RunStep(r) ==
    LET p == Program(r.cur.code) IN
    IF r.ip <= Len(p.steps)
    THEN LET s == p.steps[r.ip] IN
         CASE s.k = "print" ->
                IF r.phase = "import"
                THEN [r EXCEPT !.stdout = Append(@, RawLine(r)), !.ip = @ + 1,
                               !.extra = @ + 1]
                ELSE [r EXCEPT !.ip = @ + 1]
           [] s.k = "raw" ->
                [r EXCEPT !.stdout = Append(@, RawLine(r)), !.ip = @ + 1,
                          !.extra = @ + 1]
           [] s.k = "cap" ->
                IF s.cap \notin r.caps THEN Raised(r, "NameError", s.cap)
                ELSE IF s.method \notin ToolTable(s.cap)
                THEN Raised(r, "AttributeError", s.method)
                ELSE RelayEmit(r, s)
           [] OTHER -> RelayEmit(r, s)
    ELSE CASE p.outcome = "raise" -> Uncaught(r, "ZeroDivisionError", "division by zero")
           [] p.outcome = "raiseSyntax" -> Uncaught(r, "SyntaxError", "invalid syntax")
           [] p.outcome = "exit" -> Exited(r)
           [] OTHER -> Ended(r)

\* _execute is entered: compile(code, "eval") decides where evaluation starts
ExecuteStart(r) ==
    [r EXCEPT !.wpc = "run", !.ip = 1, !.passes = 1, !.ret = "",
              !.first = r.relay_id,
              !.phase = IF Program(r.cur.code).expr THEN "eval" ELSE "exec"]

\* one turn of the IPC loop for the line just read
Serve(r0, line) ==
    LET r == [r0 EXCEPT !.cur = line] IN
    CASE line.type = "execute" -> ExecuteStart(r)
      [] line.type = "import_state" ->
            [r EXCEPT !.wpc = "run", !.ip = 1, !.phase = "import"]
      [] line.type = "state" ->
            Respond(r, [Line("state_result") EXCEPT !.hl = r.hist, !.ok = TRUE])
      [] line.type = "inject_relay_capability" ->
            Respond([r EXCEPT !.caps = @ \cup {line.cap}, !.ns = @ \cup {line.cap}],
                    [Line("inject_result") EXCEPT !.ok = TRUE])
      [] OTHER -> Respond(r, [Line("error") EXCEPT !.emsg = "Unknown request type"])

\* the worker reads a command at the top of its loop
W_Read(w) ==
    /\ wk[w].alive /\ wk[w].wpc = "idle"
    /\ wk[w].stdin # <<>>
    /\ wk' = [wk EXCEPT ![w] = Serve([wk[w] EXCEPT !.stdin = Tail(@)], Head(wk[w].stdin))]
    /\ UNCHANGED hostVars

\* the worker runs one step of the code it was given
W_Step(w) ==
    /\ wk[w].alive /\ wk[w].wpc = "run"
    /\ wk' = [wk EXCEPT ![w] = RunStep(wk[w])]
    /\ UNCHANGED hostVars

\* the worker, blocked in _relay, reads the next line of its stdin
W_RelayReturn(w) ==
    /\ wk[w].alive /\ wk[w].wpc = "relay"
    /\ wk[w].stdin # <<>>
    /\ wk' = [wk EXCEPT ![w] = RelayReturn([wk[w] EXCEPT !.stdin = Tail(@)], Head(wk[w].stdin))]
    /\ UNCHANGED hostVars

(* ------------------------------- host --------------------------------- *)

\* lock.acquire(blocking=False) or lock.acquire(timeout=t), which may return
\* False, and lock.acquire(), which does not return until the lock is taken
Modes == {"nowait", "wait"}

\* left: ticks until the timeout of a timed acquisition expires
Request(op) ==
    [op |-> op, code |-> "", mode |-> "", left |-> 0, stage |-> 0, seq |-> 0,
     tgt |-> 0, after |-> ""]

NoRequest == Request("none")

Outcome(kind) ==
    [kind |-> kind, ok |-> FALSE, val |-> "", etype |-> "", emsg |-> "",
     hl |-> 0, cmd |-> 0, seq |-> 0, w |-> 0, type |-> ""]

\* the client-visible record made from the worker's response line
Result(r, line) ==
    [Outcome("result") EXCEPT !.ok = line.ok, !.val = line.val,
        !.etype = line.etype, !.emsg = line.emsg, !.hl = line.hl,
        !.cmd = r.seq, !.seq = line.seq, !.w = line.w, !.type = line.type]

\* an exception leaves the operation
Raises(r, msg) == [Outcome("raised") EXCEPT !.emsg = msg, !.cmd = r.seq]

(* A request for an operation that takes the lock arrives.  Nothing but the *)
(* acquisition mode is read before the lock is held, so the rest of the     *)
(* request is drawn when the body of the operation starts.                  *)
A_Request(c) ==
    /\ c \in AttachClients /\ pc[c] = "idle"
    /\ \E mode \in Modes : req' = [req EXCEPT ![c] = [Request("") EXCEPT !.mode = mode]]
    /\ pc' = [pc EXCEPT ![c] = "acquire"]
    /\ UNCHANGED <<lock, rsp, pend, runtime_repl, server_repl, nWorkers, wk,
                   backends, hub_lock, nInstalls, nSent, outstanding, calls, answered, capVars>>

\* a tool of create_server is called: runtime.acquire() with wait=True
T_Request(c) ==
    /\ c \in ToolClients /\ pc[c] = "idle"
    /\ req' = [req EXCEPT ![c] = [Request("") EXCEPT !.mode = "wait"]]
    /\ pc' = [pc EXCEPT ![c] = "acquire"]
    /\ UNCHANGED <<lock, rsp, pend, runtime_repl, server_repl, nWorkers, wk,
                   backends, hub_lock, nInstalls, nSent, outstanding, calls, answered, capVars>>

\* HarnessRuntime.acquire returning True
acquire(c) ==
    /\ pc[c] = "acquire"
    /\ lock = NoOne
    /\ lock' = c
    /\ pc' = [pc EXCEPT ![c] = "locked"]
    /\ req' = [req EXCEPT ![c].mode = "", ![c].left = 0]
    /\ UNCHANGED <<rsp, pend, runtime_repl, server_repl, nWorkers, wk,
                   backends, hub_lock, nInstalls, nSent, outstanding, calls, answered, capVars>>

\* a timed acquisition that gives up before its timeout has passed
A_Busy_early(c) ==
    /\ pc[c] = "acquire"
    /\ req[c].mode \in {"nowait", "timed"}
    /\ lock # NoOne
    /\ pc' = [pc EXCEPT ![c] = "reply"]
    /\ rsp' = [rsp EXCEPT ![c] = [Outcome("busy") EXCEPT !.emsg = "REPL busy"]]
    /\ UNCHANGED <<lock, req, pend, runtime_repl, server_repl, nWorkers, wk,
                   backends, hub_lock, nInstalls, nSent, outstanding, calls, answered, capVars>>

\* HarnessRuntime.acquire returning False: dispatch answers "REPL busy"
A_Busy(c) ==
    /\ pc[c] = "acquire"
    /\ req[c].mode \in {"nowait", "timed"}
    /\ req[c].left = 0
    /\ lock # NoOne
    /\ pc' = [pc EXCEPT ![c] = "reply"]
    /\ rsp' = [rsp EXCEPT ![c] = [Outcome("busy") EXCEPT !.emsg = "REPL busy"]]
    /\ UNCHANGED <<lock, req, pend, runtime_repl, server_repl, nWorkers, wk,
                   backends, hub_lock, nInstalls, nSent, outstanding, calls, answered, capVars>>

\* the response of an operation that never held the lock is written
reply(c) ==
    /\ pc[c] = "reply"
    /\ pc' = [pc EXCEPT ![c] = "idle"]
    /\ req' = [req EXCEPT ![c] = NoRequest]
    /\ rsp' = [rsp EXCEPT ![c] = Outcome("none")]
    /\ UNCHANGED <<lock, pend, runtime_repl, server_repl, nWorkers, wk,
                   backends, hub_lock, nInstalls, nSent, outstanding, calls, answered, capVars>>

\* a release after the body instead of in a finally clause: skipped when the
\* body raised
release_after_body(c) ==
    /\ pc[c] = "finally"
    /\ lock' = IF lock # NoOne /\ rsp[c].kind # "raised" THEN NoOne ELSE lock
    /\ pc' = [pc EXCEPT ![c] = "idle"]
    /\ req' = [req EXCEPT ![c] = NoRequest]
    /\ rsp' = [rsp EXCEPT ![c] = Outcome("none")]
    /\ pend' = [pend EXCEPT ![c] = NoLine]
    /\ calls' = [calls EXCEPT ![c] = <<>>]
    /\ UNCHANGED <<runtime_repl, server_repl, nWorkers, wk,
                   backends, hub_lock, nInstalls, nSent, outstanding, answered, capVars>>

\* HarnessRuntime.release in the finally clause; the operation then returns
\* its result or lets its exception out
release(c) ==
    /\ pc[c] = "finally"
    /\ lock' = IF lock # NoOne THEN NoOne ELSE lock
    /\ pc' = [pc EXCEPT ![c] = "idle"]
    /\ req' = [req EXCEPT ![c] = NoRequest]
    /\ rsp' = [rsp EXCEPT ![c] = Outcome("none")]
    /\ pend' = [pend EXCEPT ![c] = NoLine]
    /\ calls' = [calls EXCEPT ![c] = <<>>]
    /\ UNCHANGED <<runtime_repl, server_repl, nWorkers, wk,
                   backends, hub_lock, nInstalls, nSent, outstanding, answered, capVars>>

(* What the client of c receives when the operation leaves its finally     *)
(* clause.  AttachRequestHandler.handle turns an exception of dispatch into *)
(* a record; of the tools, restore_state catches Exception around its body  *)
(* (and around each relay reconnect, which it reports inside a successful   *)
(* record), install_capability catches it too; execute and state have no    *)
(* except clause, so their exception leaves the tool function.              *)
Returned(c) ==
    IF rsp[c].kind # "raised"
    THEN [kind |-> "record", ok |-> rsp[c].ok, emsg |-> rsp[c].emsg]
    ELSE IF c \in AttachClients
    THEN [kind |-> "record", ok |-> FALSE, emsg |-> "Dispatch failed"]
    ELSE IF req[c].op = "restore_state"
    THEN [kind |-> "record", ok |-> (req[c].stage = 1),
          emsg |-> IF req[c].stage = 1 THEN "relay_failed" ELSE rsp[c].emsg]
    ELSE [kind |-> "exception", ok |-> FALSE, emsg |-> rsp[c].emsg]

\* the REPLSubprocess an operation of client c talks to
ReplOf(c) == IF c \in ToolClients THEN server_repl ELSE runtime_repl

\* sources an import_state payload may carry for its one function entry
ImportSources == {"def f(): pass", "print('hi')"}

\* the operations of a frontend that start with a worker command
CommandRequests(c) ==
    {[Request("execute") EXCEPT !.code = code] : code \in Codes}
    \cup {Request("state")}
    \cup (IF c \in AttachClients
          THEN {[Request("import_state") EXCEPT !.code = src] : src \in ImportSources}
          ELSE {Request("restore_state")})

\* commands an operation writes to the worker from start to end
Needs(op) == IF op = "restore_state" THEN 2 ELSE 1

\* the command line the operation writes next
Command(r) ==
    CASE r.op = "restore_state" /\ r.stage = 0 ->
            [Line("import_state") EXCEPT !.code = "def f(): pass", !.hl = 2]
      [] r.op = "restore_state" ->
            [Line("inject_relay_capability") EXCEPT !.cap = "math"]
      [] r.op = "import_state" ->
            [Line("import_state") EXCEPT !.code = r.code,
                                         !.hl = IF r.code = "def f(): pass" THEN 2 ELSE 0]
      [] OTHER -> [Line(r.op) EXCEPT !.code = r.code]

\* the operation goes through _send_with_relay (execute) or _send_simple
WithRelay(r) == r.op = "execute"

\* a send that writes the command without asking process.poll() first
Write_unpolled(c, r) ==
    LET w == ReplOf(c) IN
    /\ nSent' = nSent + 1
    /\ req' = [req EXCEPT ![c] = [r EXCEPT !.seq = nSent + 1, !.tgt = w]]
    /\ wk' = [wk EXCEPT ![w].stdin =
                Append(@, [Command(r) EXCEPT !.seq = nSent + 1, !.w = w])]
    /\ outstanding' = [outstanding EXCEPT ![w] =
                           @ \cup {[seq |-> nSent + 1, by |-> c, op |-> r.op]}]
    /\ pc' = [pc EXCEPT ![c] = "await"]
    /\ UNCHANGED rsp

\* _send_simple / _send_with_relay up to the first readline, for request r
Write(c, r) ==
    LET w == ReplOf(c) IN
    IF ~wk[w].alive
    THEN /\ rsp' = [rsp EXCEPT ![c] = Raises(r, "REPL subprocess has terminated")]
         /\ pc' = [pc EXCEPT ![c] = "finally"]
         /\ req' = [req EXCEPT ![c] = r]
         /\ UNCHANGED <<wk, nSent, outstanding, capVars>>
    ELSE /\ nSent' = nSent + 1
         /\ req' = [req EXCEPT ![c] = [r EXCEPT !.seq = nSent + 1, !.tgt = w]]
         /\ wk' = [wk EXCEPT ![w].stdin =
                     Append(@, [Command(r) EXCEPT !.seq = nSent + 1, !.w = w])]
         /\ outstanding' = [outstanding EXCEPT ![w] =
                                @ \cup {[seq |-> nSent + 1, by |-> c, op |-> r.op]}]
         /\ pc' = [pc EXCEPT ![c] = "await"]
         /\ UNCHANGED rsp

\* the body of an operation starts with its worker command, or restore_state
\* goes on to repl.inject_relay_capability
send(c) ==
    /\ \/ /\ pc[c] = "locked"
          /\ \E r \in CommandRequests(c) :
                /\ nSent + Needs(r.op) <= MaxCmds
                /\ Write(c, r)
       \/ /\ pc[c] = "inject"
          /\ Write(c, req[c])
    /\ UNCHANGED <<lock, pend, runtime_repl, server_repl, nWorkers,
                   backends, hub_lock, nInstalls, calls, answered, capVars>>

\* where an operation goes once its worker command has returned a response
AfterResponse(r) ==
    IF r.op = "restore_state" /\ r.stage = 0 THEN "install" ELSE "finally"

\* process.stdout.readline returns a line: json.loads, then the relay test
recv(c) ==
    /\ pc[c] = "await"
    /\ LET w == req[c].tgt
           line == Head(wk[w].stdout)
       IN
       /\ wk[w].stdout # <<>>
       /\ wk' = [wk EXCEPT ![w].stdout = Tail(@)]
       /\ IF line.type = "raw"
          THEN /\ rsp' = [rsp EXCEPT ![c] = Raises(req[c], "JSONDecodeError")]
               /\ pc' = [pc EXCEPT ![c] = "finally"]
               /\ UNCHANGED <<req, outstanding, pend, capVars>>
          ELSE IF WithRelay(req[c]) /\ line.type = "relay_request"
          THEN /\ pc' = [pc EXCEPT ![c] = "relay"]
               /\ pend' = [pend EXCEPT ![c] = line]
               /\ UNCHANGED <<req, rsp, outstanding, capVars>>
          ELSE /\ rsp' = [rsp EXCEPT ![c] = Result(req[c], line)]
               /\ pc' = [pc EXCEPT ![c] = AfterResponse(req[c])]
               /\ req' = [req EXCEPT ![c].stage = 1]
               /\ outstanding' = IF line.type = "relay_request" THEN outstanding
                                 ELSE [outstanding EXCEPT ![w] =
                                          {o \in @ : o.seq # line.seq}]
               /\ UNCHANGED pend
    /\ UNCHANGED <<lock, runtime_repl, server_repl, nWorkers,
                   backends, hub_lock, nInstalls, nSent, calls, answered, capVars>>

\* process.stdout.readline returns "": the worker is gone
recv_eof(c) ==
    /\ pc[c] = "await"
    /\ wk[req[c].tgt].stdout = <<>>
    /\ ~wk[req[c].tgt].alive
    /\ rsp' = [rsp EXCEPT ![c] = Raises(req[c], "REPL subprocess closed stdout")]
    /\ pc' = [pc EXCEPT ![c] = "finally"]
    /\ UNCHANGED <<lock, req, pend, runtime_repl, server_repl, nWorkers, wk,
                   backends, hub_lock, nInstalls, nSent, outstanding, calls, answered, capVars>>

\* MCPHub.call as run by the relay_handler of create_runtime: the value it
\* returns, or the message of the exception it raises
call(cap, method, args, backend) ==
    IF backends[cap] = 0
    THEN [ok |-> FALSE, val |-> "", emsg |-> "not installed"]
    ELSE IF method \notin ToolTable(cap)
    THEN [ok |-> FALSE, val |-> "", emsg |-> "tool not found"]
    ELSE CASE backend = "text" -> [ok |-> TRUE, val |-> ToolResult(method, args), emsg |-> ""]
           [] backend = "empty" -> [ok |-> TRUE, val |-> Unserializable, emsg |-> ""]
           [] OTHER -> [ok |-> FALSE, val |-> "", emsg |-> "call failed"]

\* what the backend may do with the call of relay request q
Replies(q) ==
    IF backends[q.cap] # 0 /\ q.method \in ToolTable(q.cap)
    THEN BackendReplies ELSE {"none"}

\* REPLSubprocess._handle_relay: the relay_response for request q
_handle_relay(r, q, backend) ==
    LET h == IF r.handler THEN call(q.cap, q.method, q.args, backend)
             ELSE [ok |-> FALSE, val |-> "", emsg |-> "No relay handler configured"]
    IN  [Line("relay_response") EXCEPT
            !.id = q.id, !.ok = h.ok, !.val = h.val, !.emsg = h.emsg]

\* _send_with_relay lines 592-597 for the relay_request in pend[c]:
\* _handle_relay, then json.dumps and the write to the worker's stdin
handle_relay(c) ==
    /\ pc[c] = "relay"
    /\ \E backend \in Replies(pend[c]) :
         LET q == pend[c]
             w == req[c].tgt
             response == _handle_relay(wk[w], q, backend)
         IN
         /\ calls' = [calls EXCEPT ![c] =
                        IF wk[w].handler THEN Append(@, <<q.cap, q.method, q.args>>) ELSE @]
         /\ IF response.val = Unserializable
            THEN /\ rsp' = [rsp EXCEPT ![c] = Raises(req[c], "TypeError")]
                 /\ pc' = [pc EXCEPT ![c] = "finally"]
                 /\ UNCHANGED <<wk, answered, capVars>>
            ELSE /\ wk' = [wk EXCEPT ![w].stdin =
                             Append(@, [response EXCEPT !.seq = req[c].seq, !.w = w])]
                 /\ answered' = [answered EXCEPT ![w] = @ \cup {response.id}]
                 /\ pc' = [pc EXCEPT ![c] = "await"]
                 /\ UNCHANGED rsp
    /\ UNCHANGED <<lock, req, pend, runtime_repl, server_repl, nWorkers,
                   backends, hub_lock, nInstalls, nSent, outstanding, capVars>>

(* -------------------------------- hub --------------------------------- *)

\* install_capability: hub.install is called with args=, env=, cwd=, which
\* MCPHub.install does not accept; the TypeError is caught at server.py:208
install_capability(c) ==
    /\ pc[c] = "locked" /\ c \in ToolClients
    /\ req' = [req EXCEPT ![c] = Request("install_capability")]
    /\ rsp' = [rsp EXCEPT ![c] = [Outcome("failed") EXCEPT !.emsg = "TypeError"]]
    /\ pc' = [pc EXCEPT ![c] = "finally"]
    /\ UNCHANGED <<lock, pend, runtime_repl, server_repl, nWorkers, wk,
                   backends, hub_lock, nInstalls, nSent, outstanding, calls, answered, capVars>>

\* uninstall_capability calls hub.uninstall(name)
uninstall_capability(c) ==
    /\ pc[c] = "locked" /\ c \in ToolClients
    /\ req' = [req EXCEPT ![c] = [Request("uninstall_capability") EXCEPT !.after = "finally"]]
    /\ pc' = [pc EXCEPT ![c] = "uninstall"]
    /\ UNCHANGED <<lock, rsp, pend, runtime_repl, server_repl, nWorkers, wk,
                   backends, hub_lock, nInstalls, nSent, outstanding, calls, answered, capVars>>

\* an uninstall that reports on the backend and leaves it in the registry
uninstall_keeps(c) ==
    /\ pc[c] = "uninstall"
    /\ hub_lock = NoOne
    /\ rsp' = [rsp EXCEPT ![c] = [Outcome("result") EXCEPT !.ok = (backends["math"] # 0)]]
    /\ pc' = [pc EXCEPT ![c] = req[c].after]
    /\ UNCHANGED <<lock, req, pend, runtime_repl, server_repl, nWorkers, wk, backends,
                   hub_lock, nInstalls, nSent, outstanding, calls, answered, capVars>>

\* MCPHub.uninstall: async with self._lock, pop the backend, close its session
uninstall(c) ==
    /\ pc[c] = "uninstall"
    /\ hub_lock = NoOne
    /\ backends' = [backends EXCEPT !["math"] = 0]
    /\ rsp' = [rsp EXCEPT ![c] = [Outcome("result") EXCEPT !.ok = (backends["math"] # 0)]]
    /\ pc' = [pc EXCEPT ![c] = req[c].after]
    /\ UNCHANGED <<lock, req, pend, runtime_repl, server_repl, nWorkers, wk,
                   hub_lock, nInstalls, nSent, outstanding, calls, answered, capVars>>

\* MCPHub.install lines 67-69: take self._lock, then uninstall a backend that
\* is already registered under the name
install(c) ==
    /\ pc[c] = "install"
    /\ hub_lock = NoOne
    /\ hub_lock' = c
    /\ IF backends["math"] # 0
       THEN /\ pc' = [pc EXCEPT ![c] = "uninstall"]
            /\ req' = [req EXCEPT ![c].after = "handshake"]
       ELSE /\ pc' = [pc EXCEPT ![c] = "handshake"]
            /\ UNCHANGED req
    /\ UNCHANGED <<lock, rsp, pend, runtime_repl, server_repl, nWorkers, wk,
                   backends, nInstalls, nSent, outstanding, calls, answered, capVars>>

\* MCPHub.install lines 81-109: spawn, initialize, list_tools; register the
\* backend, or raise RuntimeError, which restore_state records and survives
handshake(c) ==
    /\ pc[c] = "handshake"
    /\ hub_lock' = NoOne
    /\ \E connected \in BOOLEAN :
         IF connected
         THEN /\ nInstalls' = nInstalls + 1
              /\ backends' = [backends EXCEPT !["math"] = nInstalls + 1]
              /\ pc' = [pc EXCEPT ![c] = "inject"]
              /\ UNCHANGED rsp
         ELSE /\ rsp' = [rsp EXCEPT ![c] = [Outcome("result") EXCEPT
                             !.ok = TRUE, !.emsg = "relay_failed"]]
              /\ pc' = [pc EXCEPT ![c] = "finally"]
              /\ UNCHANGED <<nInstalls, backends, capVars>>
    /\ UNCHANGED <<lock, req, pend, runtime_repl, server_repl, nWorkers, wk,
                   nSent, outstanding, calls, answered, capVars>>

\* restore_state when state_manager.load returns None
restore_none(c) ==
    /\ pc[c] = "locked" /\ c \in ToolClients
    /\ req' = [req EXCEPT ![c] = Request("restore_state")]
    /\ rsp' = [rsp EXCEPT ![c] = [Outcome("failed") EXCEPT !.emsg = "No saved state"]]
    /\ pc' = [pc EXCEPT ![c] = "finally"]
    /\ UNCHANGED <<lock, pend, runtime_repl, server_repl, nWorkers, wk,
                   backends, hub_lock, nInstalls, nSent, outstanding, calls, answered, capVars>>

\* reset up to hub.close(): uninstall every registered backend
hub_close(c) ==
    /\ pc[c] = "locked" /\ c \in ToolClients
    /\ nWorkers < MaxWorkers
    /\ req' = [req EXCEPT ![c] = [Request("reset") EXCEPT !.after = "close"]]
    /\ pc' = [pc EXCEPT ![c] =
                IF \E n \in CapNames : backends[n] # 0 THEN "uninstall" ELSE "close"]
    /\ UNCHANGED <<lock, rsp, pend, runtime_repl, server_repl, nWorkers, wk,
                   backends, hub_lock, nInstalls, nSent, outstanding, calls, answered, capVars>>

\* REPLSubprocess.close: terminate the process unless it has exited
close(r) == Exited(r)

\* reset, after hub.close: repl.close() on the repl of create_server, then
\* runtime.repl = REPLSubprocess(relay_handler=runtime.relay_handler)
reset(c) ==
    /\ pc[c] = "close"
    /\ nWorkers' = nWorkers + 1
    /\ runtime_repl' = nWorkers + 1
    /\ wk' = [wk EXCEPT ![server_repl] = close(@), ![nWorkers + 1] = REPLSubprocess(wk[runtime_repl].handler)]
    /\ rsp' = [rsp EXCEPT ![c] = [Outcome("result") EXCEPT !.ok = TRUE]]
    /\ pc' = [pc EXCEPT ![c] = "finally"]
    /\ UNCHANGED <<lock, req, pend, server_repl,
                   backends, hub_lock, nInstalls, nSent, outstanding, calls, answered, capVars>>

(* ------------------------ acquisition modes --------------------------- *)
(* The attach server's dispatch with all of its acquisition modes, ping and *)
(* unknown ops, for several attach connections; the body of a locked        *)
(* operation is one step here.                                              *)

AcqClients == ToolClients \cup {"attach", "attach2"}

\* wait=false; wait=true with a timeout; wait=true without
AcqModes == {"nowait", "timed", "wait"}

\* dispatch reads op, wait and timeout of a request for a locked operation
A_Dispatch(c) ==
    /\ c \in AcqClients \ ToolClients /\ pc[c] = "idle"
    /\ \E mode \in AcqModes : \E t \in 1..MaxWait :
         req' = [req EXCEPT ![c] = [Request("") EXCEPT
                    !.mode = mode, !.left = IF mode = "timed" THEN t ELSE 0]]
    /\ pc' = [pc EXCEPT ![c] = "acquire"]
    /\ UNCHANGED <<lock, rsp, pend, runtime_repl, server_repl, nWorkers, wk,
                   backends, hub_lock, nInstalls, nSent, outstanding, calls, answered, capVars>>

\* time passes for a thread inside lock.acquire(timeout=t)
Tick(c) ==
    /\ pc[c] = "acquire"
    /\ req[c].mode = "timed"
    /\ req[c].left > 0
    /\ req' = [req EXCEPT ![c].left = @ - 1]
    /\ UNCHANGED <<lock, pc, rsp, pend, runtime_repl, server_repl, nWorkers, wk,
                   backends, hub_lock, nInstalls, nSent, outstanding, calls, answered, capVars>>

\* AttachServerBase.dispatch, op == "ping": answers runtime.busy()
A_Ping(c) ==
    /\ c \in AcqClients \ ToolClients /\ pc[c] = "idle"
    /\ rsp' = [rsp EXCEPT ![c] = [Outcome("pong") EXCEPT !.ok = (lock # NoOne)]]
    /\ pc' = [pc EXCEPT ![c] = "reply"]
    /\ UNCHANGED <<lock, req, pend, runtime_repl, server_repl, nWorkers, wk,
                   backends, hub_lock, nInstalls, nSent, outstanding, calls, answered, capVars>>

\* AttachServerBase.dispatch falling through to "Unknown op"
A_Unknown(c) ==
    /\ c \in AcqClients \ ToolClients /\ pc[c] = "idle"
    /\ rsp' = [rsp EXCEPT ![c] = [Outcome("failed") EXCEPT !.emsg = "Unknown op"]]
    /\ pc' = [pc EXCEPT ![c] = "reply"]
    /\ UNCHANGED <<lock, req, pend, runtime_repl, server_repl, nWorkers, wk,
                   backends, hub_lock, nInstalls, nSent, outstanding, calls, answered, capVars>>

\* the body of a locked operation runs to its end
Body(c) ==
    /\ pc[c] = "locked"
    /\ rsp' = [rsp EXCEPT ![c] = [Outcome("result") EXCEPT !.ok = TRUE]]
    /\ pc' = [pc EXCEPT ![c] = "finally"]
    /\ UNCHANGED <<lock, req, pend, runtime_repl, server_repl, nWorkers, wk,
                   backends, hub_lock, nInstalls, nSent, outstanding, calls, answered, capVars>>

InitAcq ==
    /\ lock = NoOne
    /\ pc = [c \in AcqClients |-> "idle"]
    /\ req = [c \in AcqClients |-> NoRequest]
    /\ rsp = [c \in AcqClients |-> Outcome("none")]
    /\ pend = [c \in AcqClients |-> NoLine]
    /\ runtime_repl = 1
    /\ server_repl = 1
    /\ nWorkers = 1
    /\ wk = [w \in Workers |-> IF w = 1 THEN FreshWorker ELSE NoWorker]
    /\ backends = [n \in CapNames |-> 0]
    /\ nInstalls = 0
    /\ hub_lock = NoOne
    /\ nSent = 0
    /\ outstanding = [w \in Workers |-> {}]
    /\ calls = [c \in AcqClients |-> <<>>]
    /\ answered = [w \in Workers |-> {}]
    /\ fcap = NoCap
    /\ scap = NoCap
    /\ rt = NoCap

NextAcq ==
    \/ \E c \in AcqClients : A_Dispatch(c)
    \/ \E c \in AcqClients : T_Request(c)
    \/ \E c \in AcqClients : A_Ping(c)
    \/ \E c \in AcqClients : A_Unknown(c)
    \/ \E c \in AcqClients : Tick(c)
    \/ \E c \in AcqClients : acquire(c)
    \/ \E c \in AcqClients : A_Busy(c)
    \/ \E c \in AcqClients : Body(c)
    \/ \E c \in AcqClients : release(c)
    \/ \E c \in AcqClients : reply(c)

SpecAcq == InitAcq /\ [][NextAcq]_vars

\* Every thread keeps running: a step a thread can take continuously is
\* eventually taken.  Requests arrive or not as the clients please, and
\* threading.Lock promises no order among the threads blocked in acquire.
FairAcq ==
    \A c \in AcqClients :
        /\ WF_vars(acquire(c))
        /\ WF_vars(A_Busy(c))
        /\ WF_vars(Tick(c))
        /\ WF_vars(Body(c))
        /\ WF_vars(release(c))
        /\ WF_vars(reply(c))

SpecAcqFair == SpecAcq /\ FairAcq

(* --------------------------- specification ---------------------------- *)

\* the worker and hub after restore_state has run on a fresh runtime with a
\* saved state that records the relay capability "math"
Restored ==
    [FreshWorker EXCEPT !.hist = 2, !.ns = {"f", "math"}, !.caps = {"math"}]

(* The runtime right after create_runtime (a relay handler is configured), *)
(* the same after one restore_state, or a REPLSubprocess constructed with  *)
(* its default relay_handler=None.                                         *)
Init ==
    /\ lock = NoOne
    /\ pc = [c \in Clients |-> "idle"]
    /\ req = [c \in Clients |-> NoRequest]
    /\ rsp = [c \in Clients |-> Outcome("none")]
    /\ pend = [c \in Clients |-> NoLine]
    /\ runtime_repl = 1
    /\ server_repl = 1
    /\ nWorkers = 1
    /\ \E start \in {FreshWorker, Restored, REPLSubprocess(FALSE)} :
         /\ wk = [w \in Workers |-> IF w = 1 THEN start ELSE NoWorker]
         /\ backends = [n \in CapNames |-> IF n \in start.caps THEN 1 ELSE 0]
         /\ nInstalls = Cardinality(start.caps)
    /\ hub_lock = NoOne
    /\ nSent = 0
    /\ outstanding = [w \in Workers |-> {}]
    /\ calls = [c \in Clients |-> <<>>]
    /\ answered = [w \in Workers |-> {}]
    /\ fcap = NoCap
    /\ scap = NoCap
    /\ rt = NoCap

Next ==
    \/ \E c \in Clients : A_Request(c)
    \/ \E c \in Clients : T_Request(c)
    \/ \E c \in Clients : acquire(c)
    \/ \E c \in Clients : A_Busy(c)
    \/ \E c \in Clients : send(c)
    \/ \E c \in Clients : recv(c)
    \/ \E c \in Clients : recv_eof(c)
    \/ \E c \in Clients : handle_relay(c)
    \/ \E c \in Clients : install_capability(c)
    \/ \E c \in Clients : uninstall_capability(c)
    \/ \E c \in Clients : hub_close(c)
    \/ \E c \in Clients : uninstall(c)
    \/ \E c \in Clients : install(c)
    \/ \E c \in Clients : handshake(c)
    \/ \E c \in Clients : restore_none(c)
    \/ \E c \in Clients : reset(c)
    \/ \E c \in Clients : release(c)
    \/ \E c \in Clients : reply(c)
    \/ \E w \in Workers : W_Read(w)
    \/ \E w \in Workers : W_Step(w)
    \/ \E w \in Workers : W_RelayReturn(w)

Spec == Init /\ [][Next]_vars

(* ----------------------------- path guard ----------------------------- *)
(* A file name is a sequence of characters and a path the sequence of its   *)
(* names, so that /tmp/root and /tmp/root2 differ in a name, not in a       *)
(* prefix.  All paths are absolute.                                         *)

\* the file names, and the names bound in a worker's namespace, of the model
Nm == [tmp |-> <<"t">>, root |-> <<"r">>, root2 |-> <<"r", "2">>, sub |-> <<"s">>,
       etc |-> <<"e">>, link |-> <<"l">>, dotdot |-> <<".", ".">>,
       counter |-> <<"c">>, tup |-> <<"t">>, items |-> <<"s">>,
       inc |-> <<"i", "n", "c">>, inc2 |-> <<"i", "n", "c", "2">>]

\* the file system: /tmp/root/link is a symbolic link to /etc
Target(p) == IF p = <<Nm.tmp, Nm.root, Nm.link>> THEN <<Nm.etc>> ELSE p

\* Path.resolve(): ".." leaves a directory, symbolic links are followed
RECURSIVE Walk(_, _)
Walk(at, rest) ==
    IF rest = <<>> THEN at
    ELSE IF Head(rest) = Nm.dotdot
    THEN Walk(IF at = <<>> THEN at ELSE SubSeq(at, 1, Len(at) - 1), Tail(rest))
    ELSE Walk(Target(Append(at, Head(rest))), Tail(rest))

resolve(p) == Walk(<<>>, p)

\* str(path): the names joined by "/"
RECURSIVE str(_)
str(p) == IF p = <<>> THEN <<>> ELSE <<"/">> \o Head(p) \o str(Tail(p))

\* Path.parents
parents(p) == {SubSeq(p, 1, k) : k \in 0..(Len(p) - 1)}

\* path_guard.normalize_paths
normalize_paths(paths) == {resolve(p) : p \in paths}

\* path_guard.build_path_patterns
build_path_patterns(paths) == {<<"file:">> \o str(p) \o <<"/", "**">> : p \in paths}

\* a containment test on the text of the paths
is_path_allowed_startswith(candidate, allowed_paths) ==
    \E allowed \in allowed_paths :
        /\ Len(str(allowed)) <= Len(str(candidate))
        /\ SubSeq(str(candidate), 1, Len(str(allowed))) = str(allowed)

\* path_guard.is_path_allowed
is_path_allowed(candidate, allowed_paths) ==
    \E allowed \in allowed_paths :
        candidate = allowed \/ allowed \in parents(candidate)

(* ------------------------------ contracts ----------------------------- *)

\* fnmatch.fnmatch on patterns whose wildcards are "*" (any run of
\* characters) and "?" (any one character)
RECURSIVE fnmatch(_, _)
fnmatch(name, pat) ==
    IF pat = <<>> THEN name = <<>>
    ELSE IF Head(pat) = "*"
    THEN \E k \in 0..Len(name) : fnmatch(SubSeq(name, k + 1, Len(name)), Tail(pat))
    ELSE IF Head(pat) = "?"
    THEN name # <<>> /\ fnmatch(Tail(name), Tail(pat))
    ELSE name # <<>> /\ Head(name) = Head(pat) /\ fnmatch(Tail(name), Tail(pat))

\* CapabilityContract._matches_pattern: "**" is turned into "*"
_matches_pattern(pattern, resource) ==
    fnmatch(resource, [i \in 1..Len(pattern) |-> IF pattern[i] = "**" THEN "*" ELSE pattern[i]])

\* CapabilityContract.covers
covers(contract, resource_type, resource) ==
    \E pattern \in contract[resource_type] : _matches_pattern(pattern, resource)

\* CapabilityContract.is_subset_of (neither capability declares network or spawns)
is_subset_of(self, other) ==
    \A resource_type \in {"reads", "writes", "executes"} :
        \A resource \in self[resource_type] : covers(other, resource_type, resource)

(* --------------------------- file capability -------------------------- *)

\* An optional value is a sequence of no element or of one.
\* Absent: the keyword argument was not given; Given(x): it was, as x
Absent == <<>>
Given(x) == <<x>>

\* restrictions.get(key, default)
get(restrictions, key, default) ==
    IF restrictions[key] = Absent THEN default ELSE restrictions[key][1]

\* FileSystemCapability.__init__
FileSystemCapability(allowed_paths, read_only) ==
    [allowed_paths |-> normalize_paths(allowed_paths), read_only |-> read_only]

\* FileSystemCapability.contract
fs_contract(self) ==
    LET path_patterns == IF self.allowed_paths # {}
                         THEN build_path_patterns(self.allowed_paths)
                         ELSE {<<"file:", "**">>}
    IN  [reads |-> path_patterns,
         writes |-> IF self.read_only THEN {} ELSE path_patterns,
         executes |-> {}]

\* FileSystemCapability.derive
fs_derive(self, restrictions) ==
    LET new_read_only == get(restrictions, "read_only", self.read_only)
        new_paths == get(restrictions, "allowed_paths", self.allowed_paths)
        validated_paths == {resolve(p) : p \in {q \in new_paths :
                               is_path_allowed(resolve(q), self.allowed_paths)}}
    IN  FileSystemCapability(
            IF self.allowed_paths # {} /\ new_paths # {} THEN validated_paths ELSE new_paths,
            new_read_only \/ self.read_only)

\* FileSystemCapability._is_path_allowed
_is_path_allowed(self, path) ==
    IF self.allowed_paths = {} THEN TRUE ELSE is_path_allowed(resolve(path), self.allowed_paths)

\* what a call did: the exception it raised, the value it returned, the paths
\* of the file system it touched
Did(op, path, raised, value, touched) ==
    [op |-> op, path |-> path, raised |-> raised, value |-> value, touched |-> touched]

\* FileSystemCapability._check_path, then the body of the operation
Checked(self, op, path, touched) ==
    IF _is_path_allowed(self, resolve(path))
    THEN Did(op, path, "", "done", touched)
    ELSE Did(op, path, "PermissionError: outside allowed paths", "", {})

\* the parent directory of a path
parent(p) == IF p = <<>> THEN p ELSE SubSeq(p, 1, Len(p) - 1)

\* FileSystemCapability.read
read(self, path) == Checked(self, "read", path, {resolve(path)})

\* FileSystemCapability.write
write(self, path) ==
    IF self.read_only THEN Did("write", path, "PermissionError: read-only", "", {})
    ELSE Checked(self, "write", path, {parent(resolve(path)), resolve(path)})

\* FileSystemCapability.exists
exists(self, path) ==
    LET checked == Checked(self, "exists", path, {resolve(path)})
    IN  IF checked.raised # "" THEN Did("exists", path, "", "False", {}) ELSE checked

\* FileSystemCapability.mkdir
mkdir(self, path) ==
    IF self.read_only THEN Did("mkdir", path, "PermissionError: read-only", "", {})
    ELSE Checked(self, "mkdir", path, {resolve(path)})

\* the paths handed to constructors, to derive and to the operations
PathInputs ==
    {<<Nm.tmp, Nm.root>>, <<Nm.tmp, Nm.root, Nm.sub>>, <<Nm.tmp, Nm.root2>>,
     <<Nm.tmp, Nm.root2, Nm.sub>>, <<Nm.etc>>,
     <<Nm.tmp, Nm.root, Nm.link>>, <<Nm.tmp, Nm.root, Nm.dotdot, Nm.root2>>}

\* allowlists of at most MaxRoots paths
Allowlists == {ps \in SUBSET PathInputs : Cardinality(ps) <= MaxRoots}

\* the keyword arguments of FileSystemCapability.derive
FsRestrictions ==
    [read_only : {Absent, Given(TRUE), Given(FALSE)},
     allowed_paths : {Absent} \cup {Given(ps) : ps \in Allowlists}]

\* one operation of a file capability
FsCall(self, op, path) ==
    CASE op = "read" -> read(self, path)
      [] op = "write" -> write(self, path)
      [] op = "exists" -> exists(self, path)
      [] op = "mkdir" -> mkdir(self, path)

\* code derives a capability from the capability
F_derive ==
    /\ fcap.kind = "fs" /\ fcap.derived = NoCap /\ fcap.call = NoCap
    /\ \E restrictions \in FsRestrictions :
         fcap' = [fcap EXCEPT !.derived = fs_derive(fcap.parent, restrictions),
                              !.restrictions = restrictions,
                              !.call = NoCap]
    /\ UNCHANGED <<harnessVars, scap, rt>>

\* code calls an operation of the capability
F_call ==
    /\ fcap.kind = "fs" /\ fcap.derived = NoCap /\ fcap.call = NoCap
    /\ \E op \in {"read", "write", "exists", "mkdir"} : \E path \in PathInputs :
         fcap' = [fcap EXCEPT !.call = FsCall(fcap.parent, op, path)]
    /\ UNCHANGED <<harnessVars, scap, rt>>

\* code goes on with the derived capability, or with the same one after a call
F_next ==
    /\ fcap.kind = "fs" /\ (fcap.derived # NoCap \/ fcap.call # NoCap)
    /\ fcap' = [fcap EXCEPT !.parent = IF fcap.derived # NoCap THEN fcap.derived ELSE @,
                            !.derived = NoCap,
                            !.restrictions = NoCap,
                            !.call = NoCap]
    /\ UNCHANGED <<harnessVars, scap, rt>>

\* a file capability as its constructor leaves it
FsStart ==
    {[kind |-> "fs", parent |-> FileSystemCapability(ps, ro), derived |-> NoCap,
      restrictions |-> NoCap, call |-> NoCap] : ps \in Allowlists, ro \in BOOLEAN}

(* -------------------------- shell capability -------------------------- *)

\* Python's None, and a list that is not None
None == <<>>
Listed(xs) == <<xs>>

\* bool(x) of an optional list
Truthy(x) == x # None /\ x[1] # {}

\* CommandLineCapability.__init__
CommandLineCapability(allowed_commands, allowed_cwd, allowed_paths, timeout, deny) ==
    LET paths == normalize_paths(allowed_paths)
        cwd_paths == normalize_paths(allowed_cwd)
        kept == {p \in cwd_paths : is_path_allowed(p, paths)}
    IN  [allowed_commands |-> allowed_commands,
         allowed_paths |-> paths,
         allowed_cwd |-> IF paths = {} THEN cwd_paths
                         ELSE IF cwd_paths = {} \/ kept = {} THEN paths
                         ELSE kept,
         timeout |-> timeout,
         deny_shell_operators |-> deny]

\* CommandLineCapability.contract
cmd_contract(self) ==
    LET files == IF self.allowed_paths # {}
                 THEN build_path_patterns(self.allowed_paths)
                 ELSE {<<"file:", "**">>}
    IN  [executes |-> IF Truthy(self.allowed_commands)
                      THEN {<<"shell:", cmd, " ", "*">> : cmd \in self.allowed_commands[1]}
                      ELSE {<<"shell:", "*">>},
         reads |-> files,
         writes |-> files]

\* CommandLineCapability.derive
cmd_derive(self, restrictions) ==
    LET new_commands == get(restrictions, "allowed_commands", self.allowed_commands)
        new_cwd == get(restrictions, "allowed_cwd", self.allowed_cwd)
        new_paths == normalize_paths(get(restrictions, "allowed_paths", self.allowed_paths))
        new_timeout == get(restrictions, "timeout", self.timeout)
        new_deny_shell_operators ==
            get(restrictions, "deny_shell_operators", self.deny_shell_operators)
        kept_paths == IF self.allowed_paths # {} /\ new_paths # {}
                      THEN {p \in new_paths : is_path_allowed(p, self.allowed_paths)}
                      ELSE new_paths
    IN  CommandLineCapability(
            IF Truthy(self.allowed_commands) /\ Truthy(new_commands)
            THEN Listed({c \in new_commands[1] : c \in self.allowed_commands[1]})
            ELSE new_commands,
            IF new_cwd # {} THEN new_cwd ELSE self.allowed_cwd,
            IF kept_paths # {} THEN kept_paths ELSE self.allowed_paths,
            IF self.timeout # 0 /\ self.timeout < new_timeout THEN self.timeout ELSE new_timeout,
            IF self.deny_shell_operators THEN TRUE ELSE new_deny_shell_operators)

\* A command line is the sequence of its words: the name of a program, an
\* operator of the shell, or a path, absolute or relative to the directory
\* the command runs in.
Name(n) == [is |-> "name", text |-> n, abs |-> FALSE, names |-> <<>>]
Operator(o) == [is |-> "operator", text |-> o, abs |-> FALSE, names |-> <<>>]
PathArg(abs, names) == [is |-> "path", text |-> "", abs |-> abs, names |-> names]

\* the list `blocked` of CommandLineCapability.run
blocked == {"&&", "||", ";", "|", "backtick", "$(", ">", "<", "newline"}

\* Path.cwd() of the process that holds the capability
ProcessCwd == <<Nm.tmp, Nm.root>>

\* CommandLineCapability._is_command_allowed
_is_command_allowed(self, command) ==
    IF self.allowed_commands = None THEN TRUE
    ELSE /\ command # <<>>
         /\ \E allowed \in self.allowed_commands[1] : command[1].text = allowed

\* any(token in command for token in blocked)
HasOperator(command) ==
    \E i \in 1..Len(command) : command[i].is = "operator" /\ command[i].text \in blocked

\* CommandLineCapability._is_cwd_allowed
_is_cwd_allowed(self, cwd) ==
    IF self.allowed_cwd = {} THEN TRUE
    ELSE LET resolved == resolve(IF cwd = None THEN ProcessCwd ELSE cwd[1])
         IN  \E allowed \in self.allowed_cwd :
                 resolved = allowed \/ allowed \in parents(resolved)

\* path_guard.extract_path_args
extract_path_args(command) ==
    {command[i] : i \in {j \in 1..Len(command) : command[j].is = "path"}}

\* path_guard.resolve_path_arg
resolve_path_arg(value, cwd) ==
    IF value.abs THEN resolve(value.names) ELSE resolve(cwd \o value.names)

\* CommandLineCapability._check_path_args: TRUE when it returns, FALSE when it raises
_check_path_args(self, command, cwd) ==
    IF self.allowed_paths = {} THEN TRUE
    ELSE \A path_arg \in extract_path_args(command) :
             is_path_allowed(resolve_path_arg(path_arg, cwd), self.allowed_paths)

\* (cwd_path or Path.cwd()).resolve()
resolved_cwd(cwd) == resolve(IF cwd = None THEN ProcessCwd ELSE cwd[1])

\* what run did: the exception it raised, whether subprocess.run was called
Ran(command, cwd, raised, spawned) ==
    [command |-> command, cwd |-> cwd, raised |-> raised, spawned |-> spawned]

\* run with the operator check ahead of the command check
run_operators_first(self, command, cwd) ==
    IF self.deny_shell_operators /\ HasOperator(command)
    THEN Ran(command, cwd, "PermissionError: Shell operators are not allowed", FALSE)
    ELSE IF ~_is_command_allowed(self, command)
    THEN Ran(command, cwd, "PermissionError: Command not allowed", FALSE)
    ELSE IF ~_is_cwd_allowed(self, cwd)
    THEN Ran(command, cwd, "PermissionError: Working directory not allowed", FALSE)
    ELSE IF ~_check_path_args(self, command, resolved_cwd(cwd))
    THEN Ran(command, cwd, "PermissionError: Path argument not allowed", FALSE)
    ELSE Ran(command, cwd, "", TRUE)

\* CommandLineCapability.run
run(self, command, cwd) ==
    IF ~_is_command_allowed(self, command)
    THEN Ran(command, cwd, "PermissionError: Command not allowed", FALSE)
    ELSE IF self.deny_shell_operators /\ HasOperator(command)
    THEN Ran(command, cwd, "PermissionError: Shell operators are not allowed", FALSE)
    ELSE IF ~_is_cwd_allowed(self, cwd)
    THEN Ran(command, cwd, "PermissionError: Working directory not allowed", FALSE)
    ELSE IF ~_check_path_args(self, command, resolved_cwd(cwd))
    THEN Ran(command, cwd, "PermissionError: Path argument not allowed", FALSE)
    ELSE Ran(command, cwd, "", TRUE)

\* the shell capabilities a constructor builds
ShParents ==
    {CommandLineCapability(cmds, cwds, paths, timeout, deny) :
        cmds \in {None, Listed({}), Listed({"git"}), Listed({"git", "ls"})},
        cwds \in {{}, {<<Nm.tmp, Nm.root>>}},
        paths \in {{}, {<<Nm.tmp, Nm.root>>}},
        timeout \in {0, 30},
        deny \in BOOLEAN}

\* the keyword arguments of CommandLineCapability.derive
ShRestrictions ==
    [allowed_commands : {Absent} \cup {Given(Listed(cs)) : cs \in {{}, {"git"}, {"rm"}}},
     allowed_cwd : {Absent} \cup {Given(ds) : ds \in {{<<Nm.tmp, Nm.root, Nm.sub>>}, {<<Nm.etc>>}}},
     allowed_paths : {Absent} \cup {Given(ds) : ds \in {{<<Nm.tmp, Nm.root, Nm.sub>>}, {<<Nm.etc>>}}},
     timeout : {Absent} \cup {Given(t) : t \in {5, 60}},
     deny_shell_operators : {Absent, Given(TRUE), Given(FALSE)}]

\* the command lines handed to run
CommandInputs ==
    {<<Name("git")>>,
     <<Name("rm"), PathArg(TRUE, <<Nm.etc>>)>>,
     <<Name("git"), PathArg(FALSE, <<Nm.sub>>)>>,
     <<Name("git"), PathArg(FALSE, <<Nm.dotdot, Nm.root2>>)>>,
     <<Name("git"), Operator(";"), Name("rm")>>,
     <<Name("rm"), Operator("|"), Name("git")>>,
     <<Name("git"), Operator("&"), Name("ls")>>,
     <<Name("ls"), Operator(">"), PathArg(TRUE, <<Nm.etc>>)>>}

\* the directories handed to run
CwdInputs ==
    {None, Given(<<Nm.tmp, Nm.root, Nm.sub>>), Given(<<Nm.tmp, Nm.root2>>),
     Given(<<Nm.tmp, Nm.root, Nm.link>>)}

\* code derives a capability from the capability
S_derive ==
    /\ scap.kind = "cmd" /\ scap.derived = NoCap /\ scap.call = NoCap
    /\ \E restrictions \in ShRestrictions :
         scap' = [scap EXCEPT !.derived = cmd_derive(scap.parent, restrictions),
                              !.restrictions = restrictions,
                              !.call = NoCap]
    /\ UNCHANGED <<harnessVars, fcap, rt>>

\* code runs a command
S_run ==
    /\ scap.kind = "cmd" /\ scap.derived = NoCap /\ scap.call = NoCap
    /\ \E command \in CommandInputs : \E cwd \in CwdInputs :
         scap' = [scap EXCEPT !.call = run(scap.parent, command, cwd)]
    /\ UNCHANGED <<harnessVars, fcap, rt>>

\* code goes on with the derived capability, or with the same one after a run
S_next ==
    /\ scap.kind = "cmd" /\ (scap.derived # NoCap \/ scap.call # NoCap)
    /\ scap' = [scap EXCEPT !.parent = IF scap.derived # NoCap THEN scap.derived ELSE @,
                            !.derived = NoCap,
                            !.restrictions = NoCap,
                            !.call = NoCap]
    /\ UNCHANGED <<harnessVars, fcap, rt>>

\* a shell capability as its constructor leaves it
ShStart ==
    {[kind |-> "cmd", parent |-> p, derived |-> NoCap, restrictions |-> NoCap,
      call |-> NoCap] : p \in ShParents}

(* One capability object of either kind, with the harness at rest. *)
InitCap ==
    /\ lock = NoOne
    /\ pc = [c \in Clients |-> "idle"]
    /\ req = [c \in Clients |-> NoRequest]
    /\ rsp = [c \in Clients |-> Outcome("none")]
    /\ pend = [c \in Clients |-> NoLine]
    /\ runtime_repl = 1
    /\ server_repl = 1
    /\ nWorkers = 1
    /\ wk = [w \in Workers |-> IF w = 1 THEN FreshWorker ELSE NoWorker]
    /\ backends = [n \in CapNames |-> 0]
    /\ nInstalls = 0
    /\ hub_lock = NoOne
    /\ nSent = 0
    /\ outstanding = [w \in Workers |-> {}]
    /\ calls = [c \in Clients |-> <<>>]
    /\ answered = [w \in Workers |-> {}]
    /\ \/ fcap \in FsStart /\ scap = NoCap
       \/ scap \in ShStart /\ fcap = NoCap
    /\ rt = NoCap

NextCap ==
    \/ F_derive
    \/ F_call
    \/ F_next
    \/ S_derive
    \/ S_run
    \/ S_next

SpecCap == InitCap /\ [][NextCap]_vars

(* --------------------------- export and import ------------------------ *)
(* The user namespace of a worker with the values it holds, _export_state,  *)
(* the trip of the snapshot through JSON, and _import_state into a worker   *)
(* that has just started.                                                   *)

\* names bound by the code of the model, as sequences of characters
RtNames == {Nm.counter, Nm.tup, Nm.items, Nm.inc, Nm.inc2}

\* the values: type(value).__name__, and for a function the command that defined it
Unbound == [type |-> "unbound", cell |-> ""]
Value(type) == [type |-> type, cell |-> ""]
Function(cell) == [type |-> "function", cell |-> cell]

\* the commands handed to execute
RtCodes == {"counter = 5", "t = (1, 2)", "s = {1, 2}", "def inc(x): return x + 1",
            "def inc2(x): return x + 2", "counter", "1/0"}

\* the names a command binds (exec of the command), and to what
Binds(code) ==
    CASE code = "counter = 5" -> {<<Nm.counter, Value("int")>>}
      [] code = "t = (1, 2)" -> {<<Nm.tup, Value("tuple")>>}
      [] code = "s = {1, 2}" -> {<<Nm.items, Value("set")>>}
      [] code = "def inc(x): return x + 1" -> {<<Nm.inc, Function(code)>>}
      [] code = "def inc2(x): return x + 2" -> {<<Nm.inc2, Function(code)>>}
      [] OTHER -> {}

\* the names after "def " at the start of a line of the command
DefLines(code) ==
    CASE code = "def inc(x): return x + 1" -> {Nm.inc}
      [] code = "def inc2(x): return x + 2" -> {Nm.inc2}
      [] OTHER -> {}

\* exec(code, _namespace)
Exec(ns, code) ==
    [n \in RtNames |-> IF \E b \in Binds(code) : b[1] = n
                       THEN (CHOOSE b \in Binds(code) : b[1] = n)[2]
                       ELSE ns[n]]

\* a worker right after start: nothing bound, no history
FreshSession == [ns |-> [n \in RtNames |-> Unbound], hist |-> <<>>]

\* _execute: the command runs, and is appended to _history unless it raised
_execute(w, code) ==
    IF code = "1/0" THEN w
    ELSE [ns |-> Exec(w.ns, code), hist |-> Append(w.hist, code)]

\* text.startswith(prefix), on sequences of characters
startswith(text, prefix) ==
    Len(prefix) <= Len(text) /\ SubSeq(text, 1, Len(prefix)) = prefix

\* _find_definition_in_history: the latest command with a line that starts
\* with "def <name>"; "" for None
RECURSIVE _find_definition_in_history(_, _)
_find_definition_in_history(name, hist) ==
    IF hist = <<>> THEN ""
    ELSE IF \E d \in DefLines(hist[Len(hist)]) : startswith(d, name)
    THEN hist[Len(hist)]
    ELSE _find_definition_in_history(name, SubSeq(hist, 1, Len(hist) - 1))

\* callable(value) and not isinstance(value, type)
IsFunction(v) == v.type = "function"

\* json.dumps(value) does not raise
Serializable(v) == v.type \in {"int", "list", "tuple"}

\* the value after json.dumps and json.loads: a tuple comes back as a list
json(v) == IF v.type = "tuple" THEN Value("list") ELSE v

\* _get_state: the functions, the variables with their type, the history length
_get_state(w) ==
    [defined_functions |-> {n \in RtNames : IsFunction(w.ns[n])},
     variables |-> {<<n, w.ns[n].type>> : n \in {m \in RtNames :
                        w.ns[m] # Unbound /\ ~IsFunction(w.ns[m])}},
     history_length |-> Len(w.hist)]

\* _export_state: inspect.getsource finds no file for code run by exec, so the
\* source of a function comes from the history
_export_state(w) ==
    [functions |-> {[name |-> n, source |-> _find_definition_in_history(n, w.hist)] :
                       n \in {m \in RtNames : IsFunction(w.ns[m])
                                 /\ _find_definition_in_history(m, w.hist) # ""}},
     variables |-> {[name |-> n,
                     type |-> IF Serializable(w.ns[n]) THEN "json" ELSE "repr",
                     value |-> w.ns[n]] :
                       n \in {m \in RtNames : w.ns[m] # Unbound /\ ~IsFunction(w.ns[m])}},
     history |-> w.hist]

\* the snapshot as the host's export_state returns it and import_state sends it
Transported(state) ==
    [state EXCEPT !.variables = {[var EXCEPT !.value = json(@)] : var \in state.variables}]

\* _import_state: exec of each function's source, then the variables of type
\* json, then the history
_import_state(w, state) ==
    [ns |-> [n \in RtNames |->
                IF \E var \in state.variables : var.name = n /\ var.type = "json"
                THEN (CHOOSE var \in state.variables : var.name = n).value
                ELSE IF \E func \in state.functions : \E b \in Binds(func.source) : b[1] = n
                THEN Function((CHOOSE func \in state.functions :
                                  \E b \in Binds(func.source) : b[1] = n).source)
                ELSE w.ns[n]],
     hist |-> state.history]

\* execute on the first worker
R_execute ==
    /\ rt.kind = "rt" /\ rt.snap = NoCap
    /\ Len(rt.src.hist) < MaxHist
    /\ \E code \in RtCodes : rt' = [rt EXCEPT !.src = _execute(rt.src, code)]
    /\ UNCHANGED <<harnessVars, fcap, scap>>

\* export_state on the first worker
R_export ==
    /\ rt.kind = "rt" /\ rt.snap = NoCap
    /\ rt' = [rt EXCEPT !.snap = Transported(_export_state(rt.src))]
    /\ UNCHANGED <<harnessVars, fcap, scap>>

\* import_state of the snapshot on a worker that has just started
R_import ==
    /\ rt.kind = "rt" /\ rt.snap # NoCap /\ rt.dst = NoCap
    /\ rt' = [rt EXCEPT !.dst = _import_state(FreshSession, Transported(rt.snap))]
    /\ UNCHANGED <<harnessVars, fcap, scap>>

InitRt ==
    /\ lock = NoOne
    /\ pc = [c \in Clients |-> "idle"]
    /\ req = [c \in Clients |-> NoRequest]
    /\ rsp = [c \in Clients |-> Outcome("none")]
    /\ pend = [c \in Clients |-> NoLine]
    /\ runtime_repl = 1
    /\ server_repl = 1
    /\ nWorkers = 1
    /\ wk = [w \in Workers |-> IF w = 1 THEN FreshWorker ELSE NoWorker]
    /\ backends = [n \in CapNames |-> 0]
    /\ nInstalls = 0
    /\ hub_lock = NoOne
    /\ nSent = 0
    /\ outstanding = [w \in Workers |-> {}]
    /\ calls = [c \in Clients |-> <<>>]
    /\ answered = [w \in Workers |-> {}]
    /\ fcap = NoCap
    /\ scap = NoCap
    /\ rt = [kind |-> "rt", src |-> FreshSession, snap |-> NoCap, dst |-> NoCap]

NextRt ==
    \/ R_execute
    \/ R_export
    \/ R_import

SpecRt == InitRt /\ [][NextRt]_vars

(* ------------------- the worker's commands on its module state ---------- *)

\* a dict that keeps insertion order (_namespace, _capabilities): a sequence
\* of bindings; dict[name] = value keeps the place of a name already bound
Bound(d, name) == \E i \in 1..Len(d) : d[i].name = name
Lookup(d, name) == d[CHOOSE i \in 1..Len(d) : d[i].name = name].value
Bind(d, name, value) ==
    IF Bound(d, name)
    THEN [i \in 1..Len(d) |-> IF d[i].name = name
                              THEN [name |-> name, value |-> value] ELSE d[i]]
    ELSE Append(d, [name |-> name, value |-> value])

\* the values of the namespace: a class, an instance of a class, a function,
\* a plain value
Class(c) == [type |-> "type", cls |-> c]
Instance(c) == [type |-> "instance", cls |-> c]
Def == [type |-> "function", cls |-> ""]
Number == [type |-> "int", cls |-> ""]

\* the sources a snapshot carries; "" stands for None
FunctionSources == {"def inc(x): return x + 1", "def inc(:", ""}
ClassSources == {"class Counter: name = 'counter'; describe = ...",
                 "class Clock: name = 'clock'; describe = ...", "class (", ""}

\* exec(source, _namespace) raises: the source does not compile
SyntaxError(source) == source \in {"def inc(:", "class ("}

\* exec(source, _namespace) of a source that compiles
exec(ns, source) ==
    CASE source = "def inc(x): return x + 1" -> Bind(ns, "inc", Def)
      [] source = "class Counter: name = 'counter'; describe = ..." ->
            Bind(ns, "Counter", Class("Counter"))
      [] source = "class Clock: name = 'clock'; describe = ..." ->
            Bind(ns, "Clock", Class("Clock"))
      [] source = "n = 1" -> Bind(ns, "n", Number)
      [] source = "del RelayCapability" ->
            SelectSeq(ns, LAMBDA b : b.name # "RelayCapability")
      [] OTHER -> ns

\* the class a source defines, "" when it defines none
ClassOf(source) ==
    CASE source = "class Counter: name = 'counter'; describe = ..." -> "Counter"
      [] source = "class Clock: name = 'clock'; describe = ..." -> "Clock"
      [] OTHER -> ""

\* v(): RelayCapability.__init__ takes name and tools, so RelayCapability()
\* raises TypeError; the classes of the snapshot take no argument
Instantiates(c) == c # "RelayCapability"

\* instance.name
NameOf(c) ==
    CASE c = "Counter" -> "counter"
      [] c = "Clock" -> "clock"
      [] OTHER -> "RelayCapability"

\* the module state of REPL_BOOTSTRAP right after start: RelayCapability is
\* bound in the namespace, nothing is registered
Bootstrap ==
    [ns |-> <<[name |-> "RelayCapability", value |-> Class("RelayCapability")]>>,
     caps |-> <<>>,
     relay |-> <<>>,
     hist |-> <<>>]

\* results of _import_state before the first entry
NoResults ==
    [functions_restored |-> 0, functions_failed |-> <<>>,
     variables_restored |-> 0, variables_failed |-> <<>>,
     capabilities_restored |-> 0, capabilities_failed |-> <<>>,
     relay_capabilities_to_restore |-> <<>>]

\* _import_state, the loop over state["functions"]: an entry with a source is
\* run by exec, one without is passed over
RECURSIVE restore_functions(_, _)
restore_functions(m, funcs) ==
    IF funcs = <<>> THEN m
    ELSE LET func == Head(funcs)
             done == IF func.source = "" THEN m
                     ELSE IF SyntaxError(func.source)
                     THEN [m EXCEPT !.results.functions_failed = Append(@, func.name)]
                     ELSE [m EXCEPT !.ns = exec(@, func.source),
                                    !.results.functions_restored = @ + 1]
         IN restore_functions(done, Tail(funcs))

\* _import_state, the loop over state["variables"]
RECURSIVE restore_variables(_, _)
restore_variables(m, variables) ==
    IF variables = <<>> THEN m
    ELSE LET var == Head(variables)
             done == IF var.type = "json"
                     THEN [m EXCEPT !.ns = Bind(@, var.name, var.value),
                                    !.results.variables_restored = @ + 1]
                     ELSE [m EXCEPT !.results.variables_failed = Append(@, var.name)]
         IN restore_variables(done, Tail(variables))

\* the first class of the namespace that has the attributes name and describe
\* (RelayCapability has both), 0 when there is none
FirstCapabilityClass(ns) ==
    LET found == {i \in 1..Len(ns) : ns[i].value.type = "type"}
    IN IF found = {} THEN 0 ELSE CHOOSE i \in found : \A j \in found : i <= j

\* _import_state, the loop over state["native_capabilities"]: exec of the
\* source, then the first class found in the namespace is instantiated and
\* registered under the name of the instance
RECURSIVE restore_native(_, _)
restore_native(m, capabilities) ==
    IF capabilities = <<>> THEN m
    ELSE LET cap == Head(capabilities)
             ns == exec(m.ns, cap.source)
             i == FirstCapabilityClass(ns)
             v == ns[i].value.cls
             done ==
                IF cap.source = "" THEN m
                ELSE IF SyntaxError(cap.source)
                THEN [m EXCEPT !.results.capabilities_failed = Append(@, cap.name)]
                ELSE IF i = 0 THEN [m EXCEPT !.ns = ns]
                ELSE IF ~Instantiates(v)
                THEN [m EXCEPT !.ns = ns,
                               !.results.capabilities_failed = Append(@, cap.name)]
                ELSE [m EXCEPT !.ns = Bind(ns, NameOf(v), Instance(v)),
                               !.caps = Bind(@, NameOf(v), Instance(v)),
                               !.results.capabilities_restored = @ + 1]
         IN restore_native(done, Tail(capabilities))

\* _import_state as a whole: functions, variables, native capabilities, the
\* names of the relay capabilities, the history
import_state(m, state) ==
    LET start == [ns |-> m.ns, caps |-> m.caps, relay |-> m.relay, hist |-> m.hist,
                  results |-> NoResults]
        done == restore_native(
                    restore_variables(
                        restore_functions(start, state.functions),
                        state.variables),
                    state.native_capabilities)
    IN [done EXCEPT !.results.relay_capabilities_to_restore = state.relay_capabilities,
                    !.hist = state.history]

\* _list_capabilities: the native capabilities, then the relay capabilities
_list_capabilities(m) ==
    [i \in 1..Len(m.caps) |-> [name |-> m.caps[i].name, type |-> "native"]]
    \o [i \in 1..Len(m.relay) |-> [name |-> m.relay[i].name, type |-> "relay"]]

\* lists of at most MaxEntries entries
UpTo(S) == UNION {[1..n -> S] : n \in 0..MaxEntries}

\* the snapshots handed to import_state
Snapshots ==
    [functions : UpTo([name : {"inc"}, source : FunctionSources]),
     variables : UpTo({[name |-> "n", type |-> "json", value |-> Number],
                       [name |-> "s", type |-> "repr", value |-> Number]}),
     native_capabilities :
        UpTo({[name |-> "counter", source |-> "class Counter: name = 'counter'; describe = ..."],
              [name |-> "counter", source |-> "class ("],
              [name |-> "counter", source |-> ""],
              [name |-> "clock", source |-> "class Clock: name = 'clock'; describe = ..."]}),
     relay_capabilities : {<<>>, <<"fs">>},
     history : {<<>>}]

\* the commands a worker is given before the snapshot arrives
ImportPrelude == {"n = 1", "del RelayCapability",
                  "class Counter: name = 'counter'; describe = ..."}

\* execute of a command of the prelude on the worker
I_execute ==
    /\ rt.kind = "imp" /\ rt.done = NoCap
    /\ Len(rt.m.hist) < MaxEntries
    /\ \E code \in ImportPrelude :
         rt' = [rt EXCEPT !.m.ns = exec(@, code), !.m.hist = Append(@, code)]
    /\ UNCHANGED <<harnessVars, fcap, scap>>

\* import_state of a snapshot on the worker
I_import ==
    /\ rt.kind = "imp" /\ rt.done = NoCap
    /\ \E state \in Snapshots :
         rt' = [rt EXCEPT !.state = state, !.done = import_state(rt.m, state)]
    /\ UNCHANGED <<harnessVars, fcap, scap>>

InitImp ==
    /\ lock = NoOne
    /\ pc = [c \in Clients |-> "idle"]
    /\ req = [c \in Clients |-> NoRequest]
    /\ rsp = [c \in Clients |-> Outcome("none")]
    /\ pend = [c \in Clients |-> NoLine]
    /\ runtime_repl = 1
    /\ server_repl = 1
    /\ nWorkers = 1
    /\ wk = [w \in Workers |-> IF w = 1 THEN FreshWorker ELSE NoWorker]
    /\ backends = [n \in CapNames |-> 0]
    /\ nInstalls = 0
    /\ hub_lock = NoOne
    /\ nSent = 0
    /\ outstanding = [w \in Workers |-> {}]
    /\ calls = [c \in Clients |-> <<>>]
    /\ answered = [w \in Workers |-> {}]
    /\ fcap = NoCap
    /\ scap = NoCap
    /\ rt = [kind |-> "imp", m |-> Bootstrap, state |-> NoCap, done |-> NoCap]

NextImp ==
    \/ I_execute
    \/ I_import

SpecImp == InitImp /\ [][NextImp]_vars


(* --------------------- hub, saved state and shutdown -------------------- *)
(* The hub's registry with the backends' child processes, the relay        *)
(* capabilities bound in the worker, the saved state on disk and the        *)
(* runtime mutex, under the tool endpoint's capability and state tools, the *)
(* start-up installation from the configuration file, and shutdown.         *)

HubNames == {"math", "fs"}

\* the tool calls that may be under way at the same time
HubClients == {"tool", "tool2"}

\* the order in which names are visited where the code walks a dict
HubOrder == <<"math", "fs">>

\* what a spawned backend does with initialize and list_tools ("mute": it
\* never answers), and whether its process is still running once the hub has
\* let go of it: the hub itself never terminates the process
Backends == [handshake : {"ok", "refused", "mute"}, lingers : BOOLEAN]

\* the capabilities of a state file: relay entries with the command recorded
\* by save_state, "" for None
SavedStates ==
    {<<>>}
    \cup {<<[name |-> n, command |-> k]>> : n \in HubNames, k \in {"cmd", ""}}
    \cup {<<[name |-> p[1], command |-> k], [name |-> p[2], command |-> j]>> :
            p \in {q \in HubNames \X HubNames : q[1] # q[2]},
            k \in {"cmd", ""}, j \in {"cmd", ""}}

\* what a tool returns
ToolReturn(op) ==
    [op |-> op, name |-> "", success |-> FALSE, error |-> "",
     relay_reconnected |-> <<>>, relay_failed |-> <<>>]

\* a runtime right after create_runtime, with the state file on disk
HubStart(saved) ==
    [kind |-> "hub",
     backends |-> [n \in HubNames |-> 0],   \* hub.backends: name -> its child
     running |-> {},                        \* the children still running
     spawned |-> 0,                         \* children spawned so far
     relay |-> {},                          \* _relay_capabilities of the worker
     worker |-> TRUE,                       \* repl.process is running
     holder |-> "free",                     \* runtime.lock
     by |-> "",                             \* the operation under way
     hung |-> FALSE,                        \* an operation waits for ever
     raised |-> FALSE,                      \* the last hub call raised
     saved |-> saved,                       \* StateManager's file
     loaded |-> <<>>,                       \* the state restore_state loaded
     log |-> <<>>,                          \* registry events of the operation
     closed |-> "",                         \* "close" or "aclose" has returned
     last |-> ToolReturn("")]

\* bookkeeping: one event on the registry or the worker process, with the
\* operation that performs it and the holder of the mutex at that moment
Event(h, ev, name) == [ev |-> ev, name |-> name, by |-> h.by, holder |-> h.holder]

\* MCPHub.uninstall: pop the backend and close its session; the stdio
\* transport that owns the child is not closed
MCPHub_uninstall(h, name, lingers) ==
    IF h.backends[name] = 0 THEN [h EXCEPT !.raised = FALSE]
    ELSE [h EXCEPT !.backends[name] = 0,
                   !.running = IF lingers THEN @ ELSE @ \ {h.backends[name]},
                   !.log = Append(@, Event(h, "uninstall", name)),
                   !.raised = FALSE]

\* MCPHub.install(name, command): under self._lock, uninstall a backend of
\* that name (which waits for self._lock for ever), spawn the child, shake
\* hands, register
MCPHub_install(h, name, b) ==
    IF h.backends[name] # 0 THEN [h EXCEPT !.hung = TRUE]
    ELSE LET id == h.spawned + 1
             h1 == [h EXCEPT !.spawned = id, !.running = @ \cup {id}]
         IN  CASE b.handshake = "mute" -> [h1 EXCEPT !.hung = TRUE]
               [] b.handshake = "refused" ->
                     [h1 EXCEPT !.running = IF b.lingers THEN @ ELSE @ \ {id},
                                !.raised = TRUE]
               [] OTHER ->
                     [h1 EXCEPT !.backends[name] = id,
                                !.log = Append(@, Event(h, "install", name)),
                                !.raised = FALSE]

\* MCPHub.close: uninstall every registered backend
RECURSIVE MCPHub_close(_, _, _)
MCPHub_close(h, names, fate) ==
    IF names = <<>> THEN h
    ELSE MCPHub_close(MCPHub_uninstall(h, Head(names), fate[Head(names)].lingers),
                      Tail(names), fate)

\* REPLSubprocess.inject_relay_capability: raises when the worker is gone
inject_relay_capability(h, name) ==
    IF h.worker THEN [h EXCEPT !.relay = @ \cup {name}, !.raised = FALSE]
    ELSE [h EXCEPT !.raised = TRUE]

\* restore_state, the loop over state.capabilities: an entry with a command
\* is installed and injected, its name goes to relay_reconnects, or to
\* relay_failures when either raised; an entry without command is passed over
RECURSIVE reconnect(_, _, _)
reconnect(h, capabilities, fate) ==
    IF capabilities = <<>> \/ h.hung THEN h
    ELSE LET cap == Head(capabilities)
             h1 == MCPHub_install(h, cap.name, fate[cap.name])
             h2 == IF h1.hung \/ h1.raised THEN h1
                   ELSE inject_relay_capability(h1, cap.name)
             done == IF cap.command = "" THEN h
                     ELSE IF h2.hung THEN h2
                     ELSE IF h2.raised
                     THEN [h2 EXCEPT !.last.relay_failed = Append(@, cap.name)]
                     ELSE [h2 EXCEPT !.last.relay_reconnected = Append(@, cap.name)]
         IN reconnect(done, Tail(capabilities), fate)

\* runtime.release() in the finally clause of a tool; a tool that waits for
\* ever keeps the mutex
Finally(h) == IF h.hung THEN h ELSE [h EXCEPT !.holder = "free", !.by = ""]

\* a tool has taken runtime.acquire()
H_acquire(c) ==
    /\ rt.kind = "hub" /\ rt.closed = "" /\ ~rt.hung
    /\ rt.holder = "free"
    /\ rt' = [rt EXCEPT !.holder = c, !.by = c, !.log = <<>>]
    /\ UNCHANGED <<harnessVars, fcap, scap>>

\* install_capability: hub.install is called with args=, env= and cwd=, which
\* MCPHub.install does not take; the TypeError is turned into success false
H_install_capability(c) ==
    /\ rt.kind = "hub" /\ rt.holder = c /\ ~rt.hung
    /\ \E name \in HubNames :
         rt' = Finally([rt EXCEPT !.last = [ToolReturn("install_capability") EXCEPT
                                              !.name = name, !.error = "TypeError"]])
    /\ UNCHANGED <<harnessVars, fcap, scap>>

\* uninstall_capability
H_uninstall_capability(c) ==
    /\ rt.kind = "hub" /\ rt.holder = c /\ ~rt.hung
    /\ \E name \in HubNames, lingers \in BOOLEAN :
         rt' = Finally([MCPHub_uninstall(rt, name, lingers) EXCEPT
                           !.last = [ToolReturn("uninstall_capability") EXCEPT
                                        !.name = name,
                                        !.success = rt.backends[name] # 0]])
    /\ UNCHANGED <<harnessVars, fcap, scap>>

\* save_state: the relay capabilities the worker exports, each with the
\* command of its backend, or None when the hub has no backend of that name
H_save_state(c) ==
    /\ rt.kind = "hub" /\ rt.holder = c /\ ~rt.hung
    /\ rt.worker
    /\ LET entry(n) == [name |-> n,
                        command |-> IF rt.backends[n] # 0 THEN "cmd" ELSE ""]
           names == SelectSeq(HubOrder, LAMBDA n : n \in rt.relay)
       IN  rt' = Finally([rt EXCEPT
                            !.saved = [i \in 1..Len(names) |-> entry(names[i])],
                            !.last = [ToolReturn("save_state") EXCEPT !.success = TRUE]])
    /\ UNCHANGED <<harnessVars, fcap, scap>>

\* restore_state: load, import into the worker, reconnect
H_restore_state(c) ==
    /\ rt.kind = "hub" /\ rt.holder = c /\ ~rt.hung
    /\ rt.spawned + Len(rt.saved) <= MaxSpawn
    /\ IF ~rt.worker
       THEN rt' = Finally([rt EXCEPT !.last = [ToolReturn("restore_state") EXCEPT
                                                 !.error = "REPL subprocess has terminated"]])
       ELSE \E fate \in [HubNames -> Backends] :
              rt' = Finally(reconnect(
                        [rt EXCEPT !.loaded = rt.saved,
                                   !.last = [ToolReturn("restore_state") EXCEPT
                                               !.success = TRUE]],
                        rt.saved, fate))
    /\ UNCHANGED <<harnessVars, fcap, scap>>

\* execute of code that calls a method of the relay capability bound under a
\* name: the relay handler calls hub.call, which raises KeyError when the
\* name is not registered
H_execute(c) ==
    /\ rt.kind = "hub" /\ rt.holder = c /\ ~rt.hung
    /\ rt.worker
    /\ \E name \in rt.relay :
         rt' = Finally([rt EXCEPT
                          !.log = Append(@, Event(rt, "call", name)),
                          !.last = [ToolReturn("execute") EXCEPT
                                      !.name = name,
                                      !.success = rt.backends[name] # 0]])
    /\ UNCHANGED <<harnessVars, fcap, scap>>

\* install_from_config at start-up: hub.install is called with args=, env=
\* and cwd= for every enabled stdio server, the TypeError is logged, nothing
\* is installed; the mutex is not taken
H_install_from_config ==
    /\ rt.kind = "hub" /\ rt.closed = "" /\ ~rt.hung
    /\ rt.holder = "free" /\ rt.last.op = ""
    /\ rt' = [rt EXCEPT !.last = [ToolReturn("install_from_config") EXCEPT
                                    !.error = "TypeError"]]
    /\ UNCHANGED <<harnessVars, fcap, scap>>

\* HarnessRuntime.aclose: hub.close(), then repl.close(); the mutex is not
\* taken
HarnessRuntime_aclose(h, fate) ==
    LET h1 == MCPHub_close([h EXCEPT !.by = "shutdown", !.log = <<>>], HubOrder, fate)
    IN  [h1 EXCEPT !.worker = FALSE, !.log = Append(@, Event(h1, "terminate", "")),
                   !.closed = "aclose"]

\* HarnessRuntime.close: asyncio.run(self.aclose()), or, when asyncio.run
\* raises RuntimeError because a loop is running, repl.close() alone
HarnessRuntime_close(h, fate, loop_running) ==
    IF loop_running
    THEN LET h1 == [h EXCEPT !.by = "shutdown", !.log = <<>>]
         IN  [h1 EXCEPT !.worker = FALSE, !.log = Append(@, Event(h1, "terminate", "")),
                        !.closed = "close"]
    ELSE [HarnessRuntime_aclose(h, fate) EXCEPT !.closed = "close"]

\* runtime.aclose() is awaited
H_aclose ==
    /\ rt.kind = "hub" /\ rt.closed = "" /\ ~rt.hung
    /\ \E fate \in [HubNames -> Backends] : rt' = HarnessRuntime_aclose(rt, fate)
    /\ UNCHANGED <<harnessVars, fcap, scap>>

\* runtime.close() is called
H_close ==
    /\ rt.kind = "hub" /\ rt.closed = "" /\ ~rt.hung
    /\ \E fate \in [HubNames -> Backends], loop_running \in BOOLEAN :
         rt' = HarnessRuntime_close(rt, fate, loop_running)
    /\ UNCHANGED <<harnessVars, fcap, scap>>

InitHub ==
    /\ lock = NoOne
    /\ pc = [c \in Clients |-> "idle"]
    /\ req = [c \in Clients |-> NoRequest]
    /\ rsp = [c \in Clients |-> Outcome("none")]
    /\ pend = [c \in Clients |-> NoLine]
    /\ runtime_repl = 1
    /\ server_repl = 1
    /\ nWorkers = 1
    /\ wk = [w \in Workers |-> IF w = 1 THEN FreshWorker ELSE NoWorker]
    /\ backends = [n \in CapNames |-> 0]
    /\ nInstalls = 0
    /\ hub_lock = NoOne
    /\ nSent = 0
    /\ outstanding = [w \in Workers |-> {}]
    /\ calls = [c \in Clients |-> <<>>]
    /\ answered = [w \in Workers |-> {}]
    /\ fcap = NoCap
    /\ scap = NoCap
    /\ \E saved \in SavedStates : rt = HubStart(saved)

NextHub ==
    \/ \E c \in HubClients : H_acquire(c)
    \/ \E c \in HubClients : H_install_capability(c)
    \/ \E c \in HubClients : H_uninstall_capability(c)
    \/ \E c \in HubClients : H_save_state(c)
    \/ \E c \in HubClients : H_restore_state(c)
    \/ \E c \in HubClients : H_execute(c)
    \/ H_install_from_config
    \/ H_aclose
    \/ H_close

SpecHub == InitHub /\ [][NextHub]_vars


(* ------------------------------ state store ----------------------------- *)

\* the names handed to the StateManager, as their characters
StoreNames == {<<"d">>, <<"a", "_", "b">>, <<"a", " ", "b">>}

\* c.isalnum() or c in "-_"
Plain(c) == c \in {"a", "b", "d", "-", "_"}

\* StateManager._get_state_path: the stem of the file, every other character
\* replaced by "_"
_get_state_path(name) == [i \in 1..Len(name) |-> IF Plain(name[i]) THEN name[i] ELSE "_"]

\* the SavedStates handed to save; saved_at is "" until saved
StoreStates ==
    [saved_at : {""},
     functions : {<<>>, <<[name |-> "inc", source |-> "def inc(x): return x + 1",
                           signature |-> "(x)", docstring |-> ""]>>},
     variables : {<<>>, <<[name |-> "n", var_type |-> "json", value |-> "1"]>>},
     capabilities : {<<>>,
                     <<[name |-> "math", cap_type |-> "relay", command |-> "cmd",
                        source |-> ""]>>,
                     <<[name |-> "counter", cap_type |-> "native", command |-> "",
                        source |-> ""]>>},
     history : {<<>>, <<"n = 1">>}]

\* SavedState.to_dict
to_dict(state) ==
    [saved_at |-> state.saved_at,
     functions |-> state.functions,
     variables |-> [i \in DOMAIN state.variables |->
                       [name |-> state.variables[i].name,
                        type |-> state.variables[i].var_type,
                        value |-> state.variables[i].value]],
     capabilities |-> [i \in DOMAIN state.capabilities |->
                          [name |-> state.capabilities[i].name,
                           type |-> state.capabilities[i].cap_type,
                           command |-> state.capabilities[i].command,
                           source |-> state.capabilities[i].source]],
     history |-> state.history]

\* SavedState.from_dict
from_dict(data) ==
    [saved_at |-> data.saved_at,
     functions |-> data.functions,
     variables |-> [i \in DOMAIN data.variables |->
                       [name |-> data.variables[i].name,
                        var_type |-> data.variables[i].type,
                        value |-> data.variables[i].value]],
     capabilities |-> [i \in DOMAIN data.capabilities |->
                          [name |-> data.capabilities[i].name,
                           cap_type |-> data.capabilities[i].type,
                           command |-> data.capabilities[i].command,
                           source |-> data.capabilities[i].source]],
     history |-> data.history]

\* no file, and what load returns then
NoFile == <<>>

\* the files of the state directory, by stem
Stems == {_get_state_path(n) : n \in StoreNames}

\* StateManager.save: stamp the state, write its dict to the file of the name
save(files, state, name) ==
    [files EXCEPT ![_get_state_path(name)] =
        <<to_dict([state EXCEPT !.saved_at = "now"])>>]

\* StateManager.load: None without the file, else the state read from it
load(files, name) ==
    IF files[_get_state_path(name)] = NoFile THEN NoFile
    ELSE <<from_dict(files[_get_state_path(name)][1])>>

\* StateManager.list_states
list_states(files) == {s \in Stems : files[s] # NoFile}

\* StateManager.delete: the files afterwards
delete(files, name) == [files EXCEPT ![_get_state_path(name)] = NoFile]

\* the part of a state the claim speaks about
Content(state) ==
    [functions |-> state.functions, variables |-> state.variables,
     capabilities |-> state.capabilities, history |-> state.history]

\* state_manager.save(state, name); kept is bookkeeping: per name, what was
\* last saved under it and not deleted since
M_save ==
    /\ rt.kind = "store" /\ rt.n < MaxStoreOps
    /\ \E state \in StoreStates, name \in StoreNames :
         rt' = [rt EXCEPT !.files = save(@, state, name),
                          !.kept[name] = <<Content(state)>>,
                          !.n = @ + 1,
                          !.last = [op |-> "save", name |-> name, ret |-> TRUE,
                                    existed |-> TRUE]]
    /\ UNCHANGED <<harnessVars, fcap, scap>>

\* state_manager.load(name)
M_load ==
    /\ rt.kind = "store" /\ rt.n < MaxStoreOps
    /\ \E name \in StoreNames :
         rt' = [rt EXCEPT !.n = @ + 1,
                          !.last = [op |-> "load", name |-> name,
                                    ret |-> load(rt.files, name) # NoFile,
                                    existed |-> rt.kept[name] # NoFile]]
    /\ UNCHANGED <<harnessVars, fcap, scap>>

\* state_manager.delete(name)
M_delete ==
    /\ rt.kind = "store" /\ rt.n < MaxStoreOps
    /\ \E name \in StoreNames :
         rt' = [rt EXCEPT !.files = delete(@, name),
                          !.kept[name] = NoFile,
                          !.n = @ + 1,
                          !.last = [op |-> "delete", name |-> name,
                                    ret |-> rt.files[_get_state_path(name)] # NoFile,
                                    existed |-> rt.kept[name] # NoFile]]
    /\ UNCHANGED <<harnessVars, fcap, scap>>

InitStore ==
    /\ lock = NoOne
    /\ pc = [c \in Clients |-> "idle"]
    /\ req = [c \in Clients |-> NoRequest]
    /\ rsp = [c \in Clients |-> Outcome("none")]
    /\ pend = [c \in Clients |-> NoLine]
    /\ runtime_repl = 1
    /\ server_repl = 1
    /\ nWorkers = 1
    /\ wk = [w \in Workers |-> IF w = 1 THEN FreshWorker ELSE NoWorker]
    /\ backends = [n \in CapNames |-> 0]
    /\ nInstalls = 0
    /\ hub_lock = NoOne
    /\ nSent = 0
    /\ outstanding = [w \in Workers |-> {}]
    /\ calls = [c \in Clients |-> <<>>]
    /\ answered = [w \in Workers |-> {}]
    /\ fcap = NoCap
    /\ scap = NoCap
    /\ rt = [kind |-> "store", files |-> [s \in Stems |-> NoFile],
             kept |-> [n \in StoreNames |-> NoFile], n |-> 0,
             last |-> [op |-> "", name |-> <<>>, ret |-> FALSE, existed |-> FALSE]]

NextStore ==
    \/ M_save
    \/ M_load
    \/ M_delete

SpecStore == InitStore /\ [][NextStore]_vars


(* ----------------------- the worker's command loop ---------------------- *)
(* One worker and the commands of its IPC loop, each on the module state    *)
(* (_namespace, _capabilities, _relay_capabilities, _history), with the     *)
(* describe_capability operation of the two endpoints on top of execute.    *)

MaxLoopOps == 3

\* f"{name}.describe()"
DescribeCall(name) == name \o ".describe()"

\* the name arguments handed to describe_capability
DescribeNames == {"fs", "nosuch", "(n := 1)"}

\* the code handed to execute
LoopCodes == {"n = 1", "n", "1/0"} \cup {DescribeCall(name) : name \in DescribeNames}

\* None
NoneValue == [type |-> "NoneType", cls |-> ""]

\* the code raises an exception that _execute catches
CodeRaises(ns, code) ==
    CASE code = "1/0" -> TRUE
      [] code = "n" -> ~Bound(ns, "n")
      [] code = DescribeCall("fs") -> ~Bound(ns, "fs")
      [] code = DescribeCall("nosuch") -> TRUE
      [] code = DescribeCall("(n := 1)") -> TRUE
      [] OTHER -> FALSE

\* what the code has bound by the time it ends or raises
Effect(ns, code) ==
    IF code = DescribeCall("(n := 1)") THEN Bind(ns, "n", Number)
    ELSE IF CodeRaises(ns, code) THEN ns ELSE exec(ns, code)

\* _execute appending the code whether or not it raised
Execute_always(m, code) ==
    [m EXCEPT !.ns = Effect(@, code), !.hist = Append(@, code)]

\* _execute on the module state: the code runs, and is appended to _history
\* when no exception left it
Execute(m, code) ==
    [m EXCEPT !.ns = Effect(@, code),
              !.hist = IF CodeRaises(m.ns, code) THEN @ ELSE Append(@, code)]

\* the snapshots handed to import_state here: they differ in their history
LoopSnapshots ==
    [functions : {<<>>, <<[name |-> "inc", source |-> "def inc(:"]>>},
     variables : {<<>>},
     native_capabilities : {<<>>},
     relay_capabilities : {<<>>},
     history : {<<>>, <<"n = 1">>, <<"n = 1", "n">>}]

\* the record of the last command
Record(op, arg, ok, m) == [op |-> op, arg |-> arg, ok |-> ok, before |-> Len(m.hist)]

\* one more command was served
Served(m, last) ==
    /\ rt' = [rt EXCEPT !.m = m, !.n = @ + 1, !.last = last]
    /\ UNCHANGED <<harnessVars, fcap, scap>>

\* {"type": "execute", "code": code}
L_execute ==
    /\ rt.kind = "loop" /\ rt.n < MaxLoopOps
    /\ \E code \in LoopCodes :
         Served(Execute(rt.m, code), Record("execute", code, ~CodeRaises(rt.m.ns, code), rt.m))

\* {"type": "ping"}
L_ping ==
    /\ rt.kind = "loop" /\ rt.n < MaxLoopOps
    /\ Served(rt.m, Record("ping", "", TRUE, rt.m))

\* {"type": "state"}: _get_state reads the module state
L_state ==
    /\ rt.kind = "loop" /\ rt.n < MaxLoopOps
    /\ Served(rt.m, Record("state", "", TRUE, rt.m))

\* {"type": "list_capabilities"}
L_list_capabilities ==
    /\ rt.kind = "loop" /\ rt.n < MaxLoopOps
    /\ Served(rt.m, Record("list_capabilities", "", _list_capabilities(rt.m) # <<>>, rt.m))

\* {"type": "export_state"}: _export_state reads the module state
L_export_state ==
    /\ rt.kind = "loop" /\ rt.n < MaxLoopOps
    /\ Served(rt.m, Record("export_state", "", TRUE, rt.m))

\* {"type": "inject", "name": name, "code": code}: exec of the code, then
\* _namespace[name] = _namespace.get(name)
L_inject ==
    /\ rt.kind = "loop" /\ rt.n < MaxLoopOps
    /\ \E name \in {"helper"}, code \in {"n = 1", "1/0"} :
         IF CodeRaises(rt.m.ns, code)
         THEN Served(rt.m, Record("inject", name, FALSE, rt.m))
         ELSE LET ns == exec(rt.m.ns, code)
                  value == IF Bound(ns, name) THEN Lookup(ns, name) ELSE NoneValue
              IN Served([rt.m EXCEPT !.ns = Bind(ns, name, value)],
                        Record("inject", name, TRUE, rt.m))

\* {"type": "inject_relay_capability", "name": name, "tools": tools}
L_inject_relay_capability ==
    /\ rt.kind = "loop" /\ rt.n < MaxLoopOps
    /\ \E name \in {"fs"} :
         Served([rt.m EXCEPT !.ns = Bind(@, name, Instance("RelayCapability")),
                             !.relay = Bind(@, name, Instance("RelayCapability"))],
                Record("inject_relay_capability", name, TRUE, rt.m))

\* {"type": "register_capability", "name": name}: the value bound to the
\* name is registered under its own name attribute when it has name and
\* describe; a relay capability bound by injection is named as it is bound
L_register_capability ==
    /\ rt.kind = "loop" /\ rt.n < MaxLoopOps
    /\ \E name \in {"fs", "n"} :
         IF Bound(rt.m.ns, name) /\ Lookup(rt.m.ns, name).type = "instance"
         THEN Served([rt.m EXCEPT !.caps = Bind(@, name, Lookup(rt.m.ns, name))],
                     Record("register_capability", name, TRUE, rt.m))
         ELSE Served(rt.m, Record("register_capability", name, FALSE, rt.m))

\* {"type": "import_state", "state": state}
L_import_state ==
    /\ rt.kind = "loop" /\ rt.n < MaxLoopOps
    /\ \E state \in LoopSnapshots :
         LET done == import_state(rt.m, state)
         IN Served([ns |-> done.ns, caps |-> done.caps, relay |-> done.relay,
                    hist |-> done.hist],
                   Record("import_state", state.history, TRUE, rt.m))

\* describe_capability(name) of the tool endpoint and of the attach endpoint:
\* repl.execute(f"{name}.describe()") under the runtime mutex
L_describe_capability ==
    /\ rt.kind = "loop" /\ rt.n < MaxLoopOps
    /\ \E name \in DescribeNames, by \in {"tool", "attach"} :
         Served(Execute(rt.m, DescribeCall(name)),
                [Record("describe_capability", name,
                      ~CodeRaises(rt.m.ns, DescribeCall(name)), rt.m)
                    EXCEPT !.op = "describe_capability:" \o by])

InitLoop ==
    /\ lock = NoOne
    /\ pc = [c \in Clients |-> "idle"]
    /\ req = [c \in Clients |-> NoRequest]
    /\ rsp = [c \in Clients |-> Outcome("none")]
    /\ pend = [c \in Clients |-> NoLine]
    /\ runtime_repl = 1
    /\ server_repl = 1
    /\ nWorkers = 1
    /\ wk = [w \in Workers |-> IF w = 1 THEN FreshWorker ELSE NoWorker]
    /\ backends = [n \in CapNames |-> 0]
    /\ nInstalls = 0
    /\ hub_lock = NoOne
    /\ nSent = 0
    /\ outstanding = [w \in Workers |-> {}]
    /\ calls = [c \in Clients |-> <<>>]
    /\ answered = [w \in Workers |-> {}]
    /\ fcap = NoCap
    /\ scap = NoCap
    /\ rt = [kind |-> "loop", m |-> Bootstrap, n |-> 0,
             last |-> Record("ping", "", TRUE, Bootstrap)]

NextLoop ==
    \/ L_execute
    \/ L_ping
    \/ L_state
    \/ L_list_capabilities
    \/ L_export_state
    \/ L_inject
    \/ L_inject_relay_capability
    \/ L_register_capability
    \/ L_import_state
    \/ L_describe_capability

SpecLoop == InitLoop /\ [][NextLoop]_vars


(* -------------------- path arguments, token by token ------------------ *)
(* The words of a command after shlex.split, each a sequence of characters, *)
(* through extract_path_args, resolve_path_arg and the allowlist test.      *)

MaxArgs == 2

\* the words: --file=/a/b, -f/a/b, ./a/b, ~/a, --help, /t/r/s, -v, x=1, ../e, s
Tok ==
    [LongFlagPath |-> <<"-", "-", "f", "i", "l", "e", "=", "/", "a", "/", "b">>,
     ShortFlagPath |-> <<"-", "f", "/", "a", "/", "b">>,
     DotPath |-> <<".", "/", "a", "/", "b">>,
     HomePath |-> <<"~", "/", "a">>,
     LongFlag |-> <<"-", "-", "h", "e", "l", "p">>,
     InsidePath |-> <<"/", "t", "/", "r", "/", "s">>,
     ShortFlag |-> <<"-", "v">>,
     Assignment |-> <<"x", "=", "1">>,
     ParentPath |-> <<".", ".", "/", "e">>,
     Word |-> <<"s">>]

Tokens == {Tok[k] : k \in DOMAIN Tok}

\* the index of the first c in token, 0 when there is none
Find(token, c) ==
    IF \E i \in 1..Len(token) : token[i] = c
    THEN CHOOSE i \in 1..Len(token) : token[i] = c /\ \A j \in 1..(i - 1) : token[j] # c
    ELSE 0

\* token[i:]
From(token, i) == SubSeq(token, i, Len(token))

\* is_pathlike_arg restricted to absolute paths
is_pathlike_arg_absolute(token) == startswith(token, <<"/">>)

\* path_guard.is_pathlike_arg
is_pathlike_arg(token) ==
    \/ token \in {<<".">>, <<".", ".">>, <<"~">>}
    \/ startswith(token, <<"/">>) \/ startswith(token, <<".", "/">>)
    \/ startswith(token, <<".", ".", "/">>) \/ startswith(token, <<"~">>)
    \/ Find(token, "/") # 0

\* path_guard._find_path_start, counting from 1; 0 for None
_find_path_start(token) ==
    LET starts == {i \in 1..Len(token) :
                      \/ token[i] \in {"/", "~"}
                      \/ startswith(From(token, i), <<".", "/">>)
                      \/ startswith(From(token, i), <<".", ".", "/">>)}
    IN IF starts = {} THEN 0 ELSE CHOOSE i \in starts : \A j \in starts : i <= j

\* path_guard.extract_path_args, one turn of its loop: what the word adds
extract_one(arg) ==
    IF arg = <<>> THEN <<>>
    ELSE IF Find(arg, "=") # 0 /\ is_pathlike_arg(From(arg, Find(arg, "=") + 1))
    THEN <<From(arg, Find(arg, "=") + 1)>>
    ELSE IF startswith(arg, <<"-", "-">>) THEN <<>>
    ELSE IF startswith(arg, <<"-">>)
    THEN (IF _find_path_start(arg) # 0 THEN <<From(arg, _find_path_start(arg))>> ELSE <<>>)
    ELSE IF is_pathlike_arg(arg) THEN <<arg>>
    ELSE <<>>

\* path_guard.extract_path_args on the words of a command
RECURSIVE extract_path_words(_)
extract_path_words(args) ==
    IF args = <<>> THEN <<>>
    ELSE extract_one(Head(args)) \o extract_path_words(Tail(args))

\* the names between the "/" of a path text; "." and empty names are dropped
RECURSIVE Split(_)
Split(text) ==
    IF text = <<>> THEN <<>>
    ELSE LET k == Find(text, "/")
             name == IF k = 0 THEN text ELSE SubSeq(text, 1, k - 1)
             rest == IF k = 0 THEN <<>> ELSE From(text, k + 1)
         IN (IF name \in {<<>>, <<".">>} THEN <<>> ELSE <<name>>) \o Split(rest)

\* Path.home()
Home == <<<<"h">>>>

\* Path(value).expanduser(): a leading "~" stands for the home directory
expanduser(value) ==
    LET names == Split(value)
    IN IF names # <<>> /\ Head(names) = <<"~">>
       THEN PathArg(TRUE, Home \o Tail(names))
       ELSE PathArg(startswith(value, <<"/">>), names)

\* CommandLineCapability._check_path_args on the words of the command: TRUE
\* when it returns, FALSE when it raises PermissionError
check_path_words(allowed_paths, args, cwd) ==
    IF allowed_paths = {} THEN TRUE
    ELSE \A i \in 1..Len(extract_path_words(args)) :
             is_path_allowed(resolve_path_arg(expanduser(extract_path_words(args)[i]), cwd),
                             allowed_paths)

\* the words of a command are split off
G_extract ==
    /\ rt.kind = "guard" /\ rt.args = NoCap
    /\ \E n \in 1..MaxArgs : \E args \in [1..n -> Tokens] :
         rt' = [rt EXCEPT !.args = [words |-> args, paths |-> extract_path_words(args)]]
    /\ UNCHANGED <<harnessVars, fcap, scap>>

\* run reaches _check_path_args with the directory the command runs in
G_check ==
    /\ rt.kind = "guard" /\ rt.args # NoCap /\ rt.call = NoCap
    /\ \E cwd \in {<<Nm.tmp, Nm.root>>, <<Nm.tmp, Nm.root2>>, <<Nm.tmp>>} :
         rt' = [rt EXCEPT !.call =
                   [cwd |-> cwd,
                    refused |-> ~check_path_words(rt.allowed_paths, rt.args.words, cwd)]]
    /\ UNCHANGED <<harnessVars, fcap, scap>>

InitGuard ==
    /\ lock = NoOne
    /\ pc = [c \in Clients |-> "idle"]
    /\ req = [c \in Clients |-> NoRequest]
    /\ rsp = [c \in Clients |-> Outcome("none")]
    /\ pend = [c \in Clients |-> NoLine]
    /\ runtime_repl = 1
    /\ server_repl = 1
    /\ nWorkers = 1
    /\ wk = [w \in Workers |-> IF w = 1 THEN FreshWorker ELSE NoWorker]
    /\ backends = [n \in CapNames |-> 0]
    /\ nInstalls = 0
    /\ hub_lock = NoOne
    /\ nSent = 0
    /\ outstanding = [w \in Workers |-> {}]
    /\ calls = [c \in Clients |-> <<>>]
    /\ answered = [w \in Workers |-> {}]
    /\ fcap = NoCap
    /\ scap = NoCap
    /\ \E allowed \in {{}, {<<Nm.tmp, Nm.root>>}, {<<Nm.tmp, Nm.root>>, Home}} :
         rt = [kind |-> "guard", allowed_paths |-> normalize_paths(allowed),
               args |-> NoCap, call |-> NoCap]

NextGuard ==
    \/ G_extract
    \/ G_check

SpecGuard == InitGuard /\ [][NextGuard]_vars


(* ----------------------- contract patterns at work ---------------------- *)
(* covers and is_subset_of applied to patterns and resources chosen from    *)
(* small sets; the texts are sequences of characters, with "file:", "*",   *)
(* "**" and "?" standing as one element each.                               *)

\* file:s/*, file:s/**, file:s/a, file:s/?, file:*
GlobPatterns ==
    {<<"file:", "s", "/", "*">>, <<"file:", "s", "/", "**">>, <<"file:", "s", "/", "a">>,
     <<"file:", "s", "/", "?">>, <<"file:", "*">>}

\* file:s/a, file:s/b, file:s/a/b, file:e, file:s/ab
GlobResources ==
    {<<"file:", "s", "/", "a">>, <<"file:", "s", "/", "b">>,
     <<"file:", "s", "/", "a", "/", "b">>, <<"file:", "e">>,
     <<"file:", "s", "/", "a", "b">>}

\* CapabilityContract(reads=[...], spawns=...)
GlobContracts ==
    [reads : {{}} \cup {{p} : p \in GlobPatterns}, writes : {{}}, executes : {{}},
     spawns : BOOLEAN]

\* CapabilityContract.is_subset_of with its test of spawns
is_subset_of_spawns(self, other) ==
    IF self.spawns /\ ~other.spawns THEN FALSE ELSE is_subset_of(self, other)

\* contract.covers("reads", resource) on a contract with one pattern
K_covers ==
    /\ rt.kind = "glob" /\ rt.match = NoCap
    /\ \E pattern \in GlobPatterns, resource \in GlobResources :
         rt' = [rt EXCEPT !.match =
                   [pattern |-> pattern, resource |-> resource,
                    covered |-> covers([reads |-> {pattern}], "reads", resource)]]
    /\ UNCHANGED <<harnessVars, fcap, scap>>

\* child.is_subset_of(parent)
K_is_subset_of ==
    /\ rt.kind = "glob" /\ rt.subset = NoCap
    /\ \E self \in GlobContracts, other \in GlobContracts :
         rt' = [rt EXCEPT !.subset =
                   [child |-> self, parent |-> other,
                    result |-> is_subset_of_spawns(self, other)]]
    /\ UNCHANGED <<harnessVars, fcap, scap>>

InitGlob ==
    /\ lock = NoOne
    /\ pc = [c \in Clients |-> "idle"]
    /\ req = [c \in Clients |-> NoRequest]
    /\ rsp = [c \in Clients |-> Outcome("none")]
    /\ pend = [c \in Clients |-> NoLine]
    /\ runtime_repl = 1
    /\ server_repl = 1
    /\ nWorkers = 1
    /\ wk = [w \in Workers |-> IF w = 1 THEN FreshWorker ELSE NoWorker]
    /\ backends = [n \in CapNames |-> 0]
    /\ nInstalls = 0
    /\ hub_lock = NoOne
    /\ nSent = 0
    /\ outstanding = [w \in Workers |-> {}]
    /\ calls = [c \in Clients |-> <<>>]
    /\ answered = [w \in Workers |-> {}]
    /\ fcap = NoCap
    /\ scap = NoCap
    /\ rt = [kind |-> "glob", match |-> NoCap, subset |-> NoCap]

NextGlob ==
    \/ K_covers
    \/ K_is_subset_of

SpecGlob == InitGlob /\ [][NextGlob]_vars


(* ------------------------ one attach connection ------------------------- *)
(* The lines a client writes on one connection and AttachRequestHandler's  *)
(* loop over them; the runtime mutex may be held by a tool meanwhile and    *)
(* the worker may have exited.                                              *)

MaxLines == 3

\* the request lines: json tells what json.loads makes of the line (an
\* object, an error, or a value that is not an object), op is request["op"]
RequestLines ==
    {[json |-> "object", op |-> "ping"],
     [json |-> "object", op |-> "execute"],
     [json |-> "object", op |-> "nosuch"],
     [json |-> "invalid", op |-> ""],
     [json |-> "other", op |-> ""]}

\* AttachServerBase.dispatch for a request without wait: the response, or
\* "raise" when _dispatch_locked raises because the worker is gone
dispatch(request, busy, alive) ==
    IF request.op = "ping" THEN "busy: " \o (IF busy THEN "true" ELSE "false")
    ELSE IF request.op = "execute"
    THEN (IF busy THEN "REPL busy" ELSE IF alive THEN "result" ELSE "raise")
    ELSE "Unknown op"

\* the client writes one more line
C_write ==
    /\ rt.kind = "conn" /\ Len(rt.lines) < MaxLines
    /\ \E line \in RequestLines : rt' = [rt EXCEPT !.lines = Append(@, line)]
    /\ UNCHANGED <<harnessVars, fcap, scap>>

\* AttachRequestHandler.handle, one turn of its loop: the next line is read,
\* parsed and dispatched and the response is written; an exception outside
\* the two try blocks leaves handle, and the server closes the connection
handle ==
    /\ rt.kind = "conn" /\ rt.open /\ rt.read < Len(rt.lines)
    /\ LET i == rt.read + 1
           request == rt.lines[i]
           response == dispatch(request, rt.busy, rt.alive)
           _send_response(text) == Append(rt.out, [line |-> i, text |-> text])
       IN rt' = IF request.json = "invalid"
                THEN [rt EXCEPT !.read = i, !.out = _send_response("Invalid JSON")]
                ELSE IF request.json = "other"
                THEN [rt EXCEPT !.read = i, !.open = FALSE]
                ELSE IF response = "raise"
                THEN [rt EXCEPT !.read = i, !.out = _send_response("Dispatch failed")]
                ELSE [rt EXCEPT !.read = i, !.out = _send_response(response)]
    /\ UNCHANGED <<harnessVars, fcap, scap>>

\* a tool takes the runtime mutex, or gives it back
C_tool ==
    /\ rt.kind = "conn"
    /\ rt' = [rt EXCEPT !.busy = ~@]
    /\ UNCHANGED <<harnessVars, fcap, scap>>

\* the worker process exits
C_exit ==
    /\ rt.kind = "conn" /\ rt.alive
    /\ rt' = [rt EXCEPT !.alive = FALSE]
    /\ UNCHANGED <<harnessVars, fcap, scap>>

InitConn ==
    /\ lock = NoOne
    /\ pc = [c \in Clients |-> "idle"]
    /\ req = [c \in Clients |-> NoRequest]
    /\ rsp = [c \in Clients |-> Outcome("none")]
    /\ pend = [c \in Clients |-> NoLine]
    /\ runtime_repl = 1
    /\ server_repl = 1
    /\ nWorkers = 1
    /\ wk = [w \in Workers |-> IF w = 1 THEN FreshWorker ELSE NoWorker]
    /\ backends = [n \in CapNames |-> 0]
    /\ nInstalls = 0
    /\ hub_lock = NoOne
    /\ nSent = 0
    /\ outstanding = [w \in Workers |-> {}]
    /\ calls = [c \in Clients |-> <<>>]
    /\ answered = [w \in Workers |-> {}]
    /\ fcap = NoCap
    /\ scap = NoCap
    /\ rt = [kind |-> "conn", lines |-> <<>>, read |-> 0, out |-> <<>>, open |-> TRUE,
             busy |-> FALSE, alive |-> TRUE]

NextConn ==
    \/ C_write
    \/ handle
    \/ C_tool
    \/ C_exit

SpecConn == InitConn /\ [][NextConn]_vars


(* ------------------ the harness after an aborted import ----------------- *)
(* The runtime as an attach client's import_state leaves it when the source *)
(* it carried printed a line: the host has read that line, json.loads has   *)
(* raised and the mutex is free again, while the worker is still inside     *)
(* _import_state and has yet to write its result. The command is numbered 0 *)
(* as it was written before the behaviour starts.                           *)

\* the worker in the middle of that import
Importing(start) ==
    [start EXCEPT !.wpc = "run", !.phase = "import", !.ip = 2, !.extra = 1,
                  !.cur = [Line("import_state") EXCEPT !.code = "print('hi')", !.w = 1]]

InitAborted ==
    /\ lock = NoOne
    /\ pc = [c \in Clients |-> "idle"]
    /\ req = [c \in Clients |-> NoRequest]
    /\ rsp = [c \in Clients |-> Outcome("none")]
    /\ pend = [c \in Clients |-> NoLine]
    /\ runtime_repl = 1
    /\ server_repl = 1
    /\ nWorkers = 1
    /\ \E start \in {FreshWorker, Restored, REPLSubprocess(FALSE)} :
         /\ wk = [w \in Workers |-> IF w = 1 THEN Importing(start) ELSE NoWorker]
         /\ backends = [n \in CapNames |-> IF n \in start.caps THEN 1 ELSE 0]
         /\ nInstalls = Cardinality(start.caps)
    /\ hub_lock = NoOne
    /\ nSent = 0
    /\ outstanding = [w \in Workers |->
                        IF w = 1 THEN {[seq |-> 0, by |-> "attach", op |-> "import_state"]}
                        ELSE {}]
    /\ calls = [c \in Clients |-> <<>>]
    /\ answered = [w \in Workers |-> {}]
    /\ fcap = NoCap
    /\ scap = NoCap
    /\ rt = NoCap

SpecAborted == InitAborted /\ [][Next]_vars


(* --------------------- the workers a runtime spawns --------------------- *)
(* The worker processes the host has spawned, in order, with the two        *)
(* references the host holds: runtime.repl, which the attach server reads   *)
(* at each request, and the variable repl that create_server binds once and *)
(* that every tool closes over. Each action is one operation under the      *)
(* runtime mutex.                                                           *)

MaxResets == 2

ResetCodes == {"x = 1", "y = 2"}

\* the name an assignment binds
BoundBy(code) == IF code = "x = 1" THEN "x" ELSE "y"

\* REPLSubprocess(...): a new worker process with an empty namespace
Spawned == [alive |-> TRUE, ns |-> {}]

\* REPLSubprocess.execute on process i: a write to a terminated process
\* raises and leaves everything as it was
repl_execute(procs, i, code) ==
    IF procs[i].alive THEN [procs EXCEPT ![i].ns = @ \cup {BoundBy(code)}] ELSE procs

\* REPLSubprocess.close on process i
repl_close(procs, i) ==
    [procs EXCEPT ![i].alive = FALSE]

\* the execute tool: repl.execute(code)
P_execute ==
    /\ rt.kind = "reset"
    /\ \E code \in ResetCodes :
         rt' = [rt EXCEPT !.procs = repl_execute(rt.procs, rt.repl, code),
                          !.last = IF rt.procs[rt.repl].alive THEN "ok" ELSE "error"]
    /\ UNCHANGED <<harnessVars, fcap, scap>>

\* the attach server's execute: runtime.repl.execute(code)
P_attach_execute ==
    /\ rt.kind = "reset"
    /\ \E code \in ResetCodes :
         rt' = [rt EXCEPT !.procs = repl_execute(rt.procs, rt.runtime_repl, code),
                          !.last = IF rt.procs[rt.runtime_repl].alive THEN "ok" ELSE "error"]
    /\ UNCHANGED <<harnessVars, fcap, scap>>

\* the reset tool: hub.close(), repl.close(), runtime.repl = REPLSubprocess(...)
P_reset ==
    /\ rt.kind = "reset"
    /\ Len(rt.procs) <= MaxResets
    /\ rt' = [rt EXCEPT !.hub = {},
                        !.procs = Append(repl_close(rt.procs, rt.repl), Spawned),
                        !.runtime_repl = Len(rt.procs) + 1,
                        !.last = "ok"]
    /\ UNCHANGED <<harnessVars, fcap, scap>>

InitReset ==
    /\ lock = NoOne
    /\ pc = [c \in Clients |-> "idle"]
    /\ req = [c \in Clients |-> NoRequest]
    /\ rsp = [c \in Clients |-> Outcome("none")]
    /\ pend = [c \in Clients |-> NoLine]
    /\ runtime_repl = 1
    /\ server_repl = 1
    /\ nWorkers = 1
    /\ wk = [w \in Workers |-> IF w = 1 THEN FreshWorker ELSE NoWorker]
    /\ backends = [n \in CapNames |-> 0]
    /\ nInstalls = 0
    /\ hub_lock = NoOne
    /\ nSent = 0
    /\ outstanding = [w \in Workers |-> {}]
    /\ calls = [c \in Clients |-> <<>>]
    /\ answered = [w \in Workers |-> {}]
    /\ fcap = NoCap
    /\ scap = NoCap
    /\ \E hub \in SUBSET CapNames :
         rt = [kind |-> "reset", procs |-> <<Spawned>>, runtime_repl |-> 1, repl |-> 1,
               hub |-> hub, last |-> "none"]

NextReset ==
    \/ P_execute
    \/ P_attach_execute
    \/ P_reset

SpecReset == InitReset /\ [][NextReset]_vars


(* -------------------- tool calls on the event loop ---------------------- *)
(* The tool endpoint's requests as tasks of one asyncio event loop. An      *)
(* async tool is a coroutine the loop's thread runs from one await to the   *)
(* next; runtime.acquire() inside it is threading.Lock.acquire(), a call    *)
(* that blocks the thread itself. Where the server library runs a tool      *)
(* that is a plain function is the library's choice: on the loop's thread   *)
(* or on a thread of its pool. The hub work a tool awaits always finishes.  *)

MaxTasks == 2

Tasks == 1..MaxTasks

\* the tools: where the body runs and how many times it awaits the hub while
\* it holds the mutex (restore_state awaits once per relay capability saved)
ToolCalls ==
    {[op |-> "execute", on |-> th, awaits |-> 0] : th \in {"loop", "pool"}}
    \cup {[op |-> o, on |-> "loop", awaits |-> 1] :
             o \in {"install_capability", "uninstall_capability", "reset"}}
    \cup {[op |-> "restore_state", on |-> "loop", awaits |-> n] : n \in 0..1}

NoCall == [op |-> "none", on |-> "loop", awaits |-> 0]

\* the tool's body once it holds the mutex: up to its await, or, with nothing
\* to await, through the finally clause that releases the mutex
Enter(t) ==
    IF rt.call[t].awaits > 0
    THEN [rt EXCEPT !.lock = t, !.thread = IF @ = t THEN 0 ELSE @, !.tpc[t] = "awaiting"]
    ELSE [rt EXCEPT !.lock = 0, !.thread = IF @ = t THEN 0 ELSE @, !.tpc[t] = "done"]

\* a request arrives and the server makes a task of it
E_call(t) ==
    /\ rt.kind = "tools" /\ rt.tpc[t] = "idle"
    /\ \E tool \in ToolCalls :
         rt' = [rt EXCEPT !.call[t] = tool, !.tpc[t] = "pending"]
    /\ UNCHANGED <<harnessVars, fcap, scap>>

\* the task starts: runtime.acquire() returns at once when the mutex is
\* free and blocks the thread that called it otherwise
E_begin(t) ==
    /\ rt.kind = "tools" /\ rt.tpc[t] = "pending"
    /\ rt.call[t].on = "loop" => rt.thread = 0
    /\ rt' = IF rt.lock = 0 THEN Enter(t)
             ELSE [rt EXCEPT !.tpc[t] = "blocked",
                             !.thread = IF rt.call[t].on = "loop" THEN t ELSE @]
    /\ UNCHANGED <<harnessVars, fcap, scap>>

\* the hub work the task awaits has finished: the task can be resumed
E_io(t) ==
    /\ rt.kind = "tools" /\ rt.tpc[t] = "awaiting"
    /\ rt' = [rt EXCEPT !.tpc[t] = "ready"]
    /\ UNCHANGED <<harnessVars, fcap, scap>>

\* the loop resumes the task: the rest of the body and runtime.release()
E_resume(t) ==
    /\ rt.kind = "tools" /\ rt.tpc[t] = "ready"
    /\ rt.thread = 0
    /\ rt' = [rt EXCEPT !.lock = 0, !.tpc[t] = "done"]
    /\ UNCHANGED <<harnessVars, fcap, scap>>

\* the mutex is released while the task is blocked in runtime.acquire()
E_wake(t) ==
    /\ rt.kind = "tools" /\ rt.tpc[t] = "blocked"
    /\ rt.lock = 0
    /\ rt' = Enter(t)
    /\ UNCHANGED <<harnessVars, fcap, scap>>

\* the response is sent
E_return(t) ==
    /\ rt.kind = "tools" /\ rt.tpc[t] = "done"
    /\ rt' = [rt EXCEPT !.call[t] = NoCall, !.tpc[t] = "idle"]
    /\ UNCHANGED <<harnessVars, fcap, scap>>

InitTools ==
    /\ lock = NoOne
    /\ pc = [c \in Clients |-> "idle"]
    /\ req = [c \in Clients |-> NoRequest]
    /\ rsp = [c \in Clients |-> Outcome("none")]
    /\ pend = [c \in Clients |-> NoLine]
    /\ runtime_repl = 1
    /\ server_repl = 1
    /\ nWorkers = 1
    /\ wk = [w \in Workers |-> IF w = 1 THEN FreshWorker ELSE NoWorker]
    /\ backends = [n \in CapNames |-> 0]
    /\ nInstalls = 0
    /\ hub_lock = NoOne
    /\ nSent = 0
    /\ outstanding = [w \in Workers |-> {}]
    /\ calls = [c \in Clients |-> <<>>]
    /\ answered = [w \in Workers |-> {}]
    /\ fcap = NoCap
    /\ scap = NoCap
    /\ rt = [kind |-> "tools", call |-> [t \in Tasks |-> NoCall],
             tpc |-> [t \in Tasks |-> "idle"], lock |-> 0, thread |-> 0]

NextTools ==
    \E t \in Tasks :
        \/ E_call(t)
        \/ E_begin(t)
        \/ E_io(t)
        \/ E_resume(t)
        \/ E_wake(t)
        \/ E_return(t)

SpecTools == InitTools /\ [][NextTools]_vars


(* ------------------------------- claims ------------------------------- *)

\* the line a worker wrote last
Last(seq) == seq[Len(seq)]

\* pc values of a client that is inside an operation holding the runtime lock
InBody == {"locked", "await", "relay", "install", "uninstall", "handshake",
           "inject", "close", "finally"}

\* this step is worker w writing the final result of the execute it serves
EmitsExecuteResult(w) ==
    /\ wk[w].wpc \in {"run", "relay"}
    /\ wk[w].cur.type = "execute"
    /\ wk'[w].wpc = "idle"

\* this step is worker w, blocked in _relay, taking the next line of its stdin
TakesRelayLine(w) ==
    /\ wk[w].wpc = "relay"
    /\ wk[w].stdin # <<>>
    /\ wk'[w].wpc # "relay"
    /\ wk'[w].alive

\* C1: at most one command is outstanding at any worker: no command line is
\* written while a command written before still has its final response unread.
C1_OneOutstanding ==
    \A w \in Workers : Cardinality(outstanding[w]) <= 1

\* C2: from the write of an execute command until its final result has been
\* read, the runtime lock is held by the client of that execute and no other
\* client is inside an operation that takes the lock (a worker command or a
\* hub mutation); the relay handler runs inside that window.
C2_HeldUntilResultRead ==
    \A w \in Workers : \A o \in outstanding[w] :
        (wk[w].alive /\ o.op = "execute") =>
            /\ lock = o.by
            /\ \A d \in Clients \ {o.by} : pc[d] \notin InBody

\* C3: a client whose operation has returned or raised does not hold the
\* runtime lock, and a failed acquisition leaves the lock as it was.
C3_ReleasedOnEveryPath ==
    [][\A c \in Clients :
          /\ (pc[c] # "idle" /\ pc'[c] = "idle") => lock' # c
          /\ (pc[c] = "acquire" /\ pc'[c] = "reply") => lock' = lock]_vars

\* C3 witness: one operation is leaving through an exception (the worker
\* died in the middle of its command) while another's acquisition has failed.
C3_Witness ==
    \E c \in Clients : \E d \in Clients \ {c} :
        /\ pc[c] = "finally" /\ rsp[c].kind = "raised"
        /\ rsp[c].emsg = "REPL subprocess closed stdout"
        /\ pc[d] = "reply" /\ rsp[d].kind = "busy"

\* C4: a worker writes nothing but the one response line of the command it
\* serves (and relay requests) on its real stdout, and the line the host
\* takes as the response to a command is the worker's response to it.
C4_OneResponsePerCommand ==
    /\ \A w \in Workers : wk[w].extra = 0
    /\ \A c \in Clients : rsp[c].kind = "result" /\ rsp[c].cmd # 0 =>
                             rsp[c].seq = rsp[c].cmd

\* C5: both frontends talk to the worker the runtime owns, so that after a
\* reset every operation is served by the newly spawned worker.
C5_ServedByNewWorker ==
    \A c \in Clients : ReplOf(c) = runtime_repl

\* C6: an install that finds a backend registered under the name gets on:
\* the uninstall it awaits can run.
C6_InstallProceeds ==
    \A c \in Clients : pc[c] = "uninstall" => ENABLED uninstall(c)

\* C7: the id of each relay request is larger than every id the worker used
\* before, the relay_response the host writes carries the id of the request
\* it read, and a line whose type or id does not match the pending request
\* becomes a RuntimeError in the calling code, not the call's result.
C7_RelayIds ==
    [][/\ \A w \in Workers :
             /\ (wk[w].alive /\ wk'[w].alive) => wk'[w].relay_id >= wk[w].relay_id
             /\ (wk[w].wpc = "run" /\ wk'[w].wpc = "relay") =>
                    /\ Last(wk'[w].stdout).type = "relay_request"
                    /\ Last(wk'[w].stdout).id > wk[w].relay_id
                    /\ Last(wk'[w].stdout).id = wk'[w].relay_id
             /\ (TakesRelayLine(w)
                   /\ (Head(wk[w].stdin).type # "relay_response"
                         \/ Head(wk[w].stdin).id # wk[w].relay_id)) =>
                    IF Program(wk[w].cur.code).catches
                    THEN wk'[w].wpc = "run" /\ wk'[w].ret = wk[w].ret
                    ELSE /\ wk'[w].wpc = "idle"
                         /\ Last(wk'[w].stdout).type = "execute_result"
                         /\ ~Last(wk'[w].stdout).ok
                         /\ Last(wk'[w].stdout).etype = "RuntimeError"
       /\ \A c \in Clients :
             (pc[c] = "relay" /\ pc'[c] = "await") =>
                    /\ Last(wk'[req[c].tgt].stdin).type = "relay_response"
                    /\ Last(wk'[req[c].tgt].stdin).id = pend[c].id]_vars

\* C7 witness: a worker has emitted two relay requests, the first was
\* answered under its id, and a line of another type that arrived for the
\* second has been turned into the error of the execute.
C7_Witness ==
    \E w \in Workers :
        /\ wk[w].relay_id = 2
        /\ 1 \in answered[w]
        /\ wk[w].stdout # <<>>
        /\ Last(wk[w].stdout).type = "execute_result"
        /\ Last(wk[w].stdout).emsg = "Unexpected response type"

\* C8: a worker writes the final result of an execute only when the host has
\* answered every relay request of that execute.
C8_ResultAfterAnswers ==
    [][\A w \in Workers :
          EmitsExecuteResult(w) =>
              \A i \in (wk[w].first + 1)..wk[w].relay_id : i \in answered[w]]_vars

\* C9: one execute command runs the submitted code at most once.
C9_EvaluatedOnce ==
    \A w \in Workers : wk[w].passes <= 1

\* this step is worker w taking the relay_response of its pending request,
\* and the response reports a failure
TakesFailure(w) ==
    /\ TakesRelayLine(w)
    /\ Head(wk[w].stdin).type = "relay_response"
    /\ Head(wk[w].stdin).id = wk[w].relay_id
    /\ ~Head(wk[w].stdin).ok

\* the worker has answered its command with a failed execute result carrying
\* the message, and nothing else is left on either pipe
FailsInSync(w, emsg) ==
    /\ wk'[w].wpc = "idle"
    /\ wk'[w].stdin = <<>>
    /\ Len(wk'[w].stdout) = 1
    /\ Last(wk'[w].stdout).type = "execute_result"
    /\ Last(wk'[w].stdout).seq = wk[w].cur.seq
    /\ ~Last(wk'[w].stdout).ok
    /\ Last(wk'[w].stdout).etype = "RuntimeError"
    /\ Last(wk'[w].stdout).emsg = emsg

\* C10 as stated: whenever a relay call fails (the handler raised, no handler
\* is configured, the backend or tool is not installed), the execute around
\* it returns success=false with the message, worker and host in sync.
C10_FailureFailsExecute ==
    [][\A w \in Workers :
          TakesFailure(w) => FailsInSync(w, Head(wk[w].stdin).emsg)]_vars

\* C10 amended: a failed relay call is raised in the calling code; code that
\* does not catch the error ends in a failed execute result with the message,
\* code that catches it runs on; either way the pipes stay in sync.
C10_FailureRaised ==
    [][\A w \in Workers :
          TakesFailure(w) =>
              IF Program(wk[w].cur.code).catches
              THEN /\ wk'[w].wpc = "run"
                   /\ wk'[w].ip = wk[w].ip + 1
                   /\ wk'[w].ret = wk[w].ret
                   /\ wk'[w].stdin = <<>>
                   /\ wk'[w].stdout = <<>>
              ELSE FailsInSync(w, Head(wk[w].stdin).emsg)]_vars

\* C10 witness: a handler that raised has made an execute fail with its
\* message.
C10_Witness ==
    \E w \in Workers :
        /\ wk[w].stdout # <<>>
        /\ Last(wk[w].stdout).type = "execute_result"
        /\ ~Last(wk[w].stdout).ok
        /\ Last(wk[w].stdout).emsg = "call failed"

\* operations that start with a command to the worker
WorkerOps == {"execute", "state", "import_state", "restore_state"}

\* this step is client c, holding the lock, starting a worker operation or
\* going on to the next worker command of its operation
StartsCommand(c) ==
    /\ pc[c] \in {"locked", "inject"}
    /\ pc'[c] # pc[c]
    /\ req'[c].op \in WorkerOps
    /\ rsp'[c].emsg # "No saved state"

\* C11: when the worker an operation talks to has died, the operation fails
\* at once: it writes nothing, waits for nothing, and goes to the finally
\* clause (which releases the lock) with RuntimeError "terminated".
C11_FailsFast ==
    [][\A c \in Clients :
          (StartsCommand(c) /\ ~wk[ReplOf(c)].alive) =>
              /\ pc'[c] = "finally"
              /\ rsp'[c].kind = "raised"
              /\ rsp'[c].emsg = "REPL subprocess has terminated"
              /\ wk' = wk
              /\ nSent' = nSent]_vars

\* C11 witness: the only worker ever spawned exited (no reset since), and a
\* later operation has failed fast.
C11_Witness ==
    \E c \in Clients :
        /\ nWorkers = 1
        /\ wk[1].wpc = "dead"
        /\ pc[c] = "finally"
        /\ rsp[c].emsg = "REPL subprocess has terminated"

\* C12: an operation whose worker command failed at transport level (the
\* worker had terminated, it closed its stdout, or its line did not parse)
\* hands its client a record with success false.
C12_TransportFailureIsRecord ==
    \A c \in Clients :
        (pc[c] = "finally" /\ rsp[c].kind = "raised"
           /\ rsp[c].emsg \in {"REPL subprocess has terminated",
                               "REPL subprocess closed stdout",
                               "JSONDecodeError"}) =>
            /\ Returned(c).kind = "record"
            /\ ~Returned(c).ok

\* C13: 'REPL busy' is answered only to a wait=false request or to a timed
\* request whose timeout has run out, only while another operation holds the
\* lock, and without touching the lock or the worker; a wait=false request
\* never waits; a wait=true request without timeout stays blocked until it
\* holds the lock; ping and unknown ops answer without touching the lock, and
\* ping reports busy exactly when the lock is held.
C13_AcquisitionModes ==
    [][\A c \in AcqClients :
          /\ (pc[c] = "acquire" /\ pc'[c] = "reply") =>
                /\ rsp'[c].emsg = "REPL busy"
                /\ req[c].mode \in {"nowait", "timed"}
                /\ req[c].left = 0
                /\ lock \notin {NoOne, c}
                /\ lock' = lock /\ wk' = wk /\ nSent' = nSent
          /\ (pc[c] = "acquire" /\ req[c].mode = "nowait") =>
                /\ req[c].left = 0
                /\ pc'[c] \in {"acquire", "reply", "locked"}
                /\ req'[c].left = 0
          /\ (pc[c] = "acquire" /\ req[c].mode = "wait") =>
                /\ pc'[c] \in {"acquire", "locked"}
                /\ pc'[c] = "locked" => lock = NoOne /\ lock' = c
          /\ (pc[c] = "idle" /\ pc'[c] = "reply") =>
                /\ lock' = lock /\ wk' = wk /\ nSent' = nSent
                /\ rsp'[c].kind \in {"pong", "failed"}
                /\ rsp'[c].kind = "pong" => (rsp'[c].ok <=> lock # NoOne)]_vars

\* C13 witness: while the tool endpoint holds the lock, one attach request
\* has been answered 'REPL busy' after its timeout ran out and another is
\* blocked in wait=true mode.
C13_Witness ==
    \E c \in AcqClients \ ToolClients : \E d \in AcqClients \ (ToolClients \cup {c}) :
        /\ lock \in ToolClients
        /\ pc[c] = "reply" /\ rsp[c].kind = "busy" /\ req[c].mode = "timed"
        /\ pc[d] = "acquire" /\ req[d].mode = "wait"

\* C14: every holder releases (the fairness of Body and release), and then
\* every client blocked in wait=true mode without timeout eventually holds
\* the lock.
C14_WaiterAcquires ==
    \A c \in AcqClients :
        (pc[c] = "acquire" /\ req[c].mode = "wait") ~> (lock = c)

\* root r equals path p or is one of the directories above it, name by name
Within(p, r) == Len(r) <= Len(p) /\ \A k \in 1..Len(r) : p[k] = r[k]

\* the capability accepts the path for read
Reads(self, p) == read(self, p).raised = ""

\* this step is a derive call returning a capability
FsDerives == fcap.kind = "fs" /\ fcap.derived = NoCap /\ fcap'.derived # NoCap
ShDerives == scap.kind = "cmd" /\ scap.derived = NoCap /\ scap'.derived # NoCap

\* C15: whatever the parent and the restrictions, the contract of the derived
\* file capability is a subset of the parent's, every path the derived one
\* accepts for read the parent accepts, the derived one is read-only when the
\* parent is, and the parent is as it was.
C15_DerivationMonotone ==
    [][FsDerives =>
          /\ is_subset_of(fs_contract(fcap'.derived), fs_contract(fcap.parent))
          /\ \A p \in PathInputs : Reads(fcap'.derived, p) => Reads(fcap.parent, p)
          /\ fcap.parent.read_only => fcap'.derived.read_only
          /\ fcap'.parent = fcap.parent]_vars

\* the command names a shell capability lets through, among those of the model
Lets(self) == {n \in {"git", "ls", "rm"} : _is_command_allowed(self, <<Name(n)>>)}

\* C16: the derived shell capability lets through only commands that both the
\* request and the parent let through, its directories are directories of
\* the request that the parent allows, its timeout is at most the parent's,
\* deny_operators stays on, and its contract is a subset of the parent's.
C16_DerivationNarrows ==
    [][ShDerives =>
          LET self == scap.parent
              derived == scap'.derived
              asked == scap'.restrictions
          IN  /\ Lets(derived) \subseteq Lets(self)
              /\ asked.allowed_commands # Absent =>
                    Lets(derived) \subseteq
                        Lets([self EXCEPT !.allowed_commands = asked.allowed_commands[1]])
              /\ self.allowed_cwd # {} =>
                    /\ derived.allowed_cwd # {}
                    /\ \A d \in derived.allowed_cwd : _is_cwd_allowed(self, Given(d))
              /\ derived.timeout <= self.timeout
              /\ self.deny_shell_operators => derived.deny_shell_operators
              /\ is_subset_of(cmd_contract(derived), cmd_contract(self))]_vars

\* the restrictions ask for more than the file capability has
FsBroadens(self, asked) ==
    \/ /\ self.read_only
       /\ asked.read_only = Given(FALSE)
    \/ /\ self.allowed_paths # {}
       /\ asked.allowed_paths # Absent
       /\ \E p \in asked.allowed_paths[1] :
              \A r \in self.allowed_paths : ~Within(resolve(p), r)

\* the restrictions ask for more than the shell capability has
ShBroadens(self, asked) ==
    \/ /\ self.deny_shell_operators
       /\ asked.deny_shell_operators = Given(FALSE)
    \/ /\ self.allowed_commands # None
       /\ asked.allowed_commands # Absent
       /\ \E c \in asked.allowed_commands[1][1] : c \notin self.allowed_commands[1]
    \/ /\ self.allowed_cwd # {}
       /\ asked.allowed_cwd # Absent
       /\ \E d \in asked.allowed_cwd[1] : \A r \in self.allowed_cwd : ~Within(resolve(d), r)

\* C17: a derive call whose restrictions would broaden the parent returns no
\* capability.
C17_BroadeningRejected ==
    /\ (fcap.kind = "fs" /\ fcap.derived # NoCap) =>
           ~FsBroadens(fcap.parent, fcap.restrictions)
    /\ (scap.kind = "cmd" /\ scap.derived # NoCap) =>
           ~ShBroadens(scap.parent, scap.restrictions)

\* C18: a file capability with roots touches the file system in read, write,
\* exists or mkdir only when the canonical form of the path equals a root or
\* lies below one, name by name; otherwise _check_path refuses with a
\* permission error, which read, write and mkdir raise and exists answers
\* as False.
C18_ContainmentSound ==
    (fcap.kind = "fs" /\ fcap.call # NoCap /\ fcap.parent.allowed_paths # {}) =>
        LET did == fcap.call
            inside == \E r \in fcap.parent.allowed_paths : Within(resolve(did.path), r)
        IN  /\ did.touched # {} => inside
            /\ ~inside =>
                  /\ did.touched = {}
                  /\ IF did.op = "exists" THEN did.raised = "" /\ did.value = "False"
                     ELSE did.raised \in {"PermissionError: outside allowed paths",
                                          "PermissionError: read-only"}

\* C18 witness: with the one root /tmp/root, read of /tmp/root2/s was refused
\* with the permission error.
C18_Witness ==
    /\ fcap.kind = "fs"
    /\ fcap.parent.allowed_paths = {<<Nm.tmp, Nm.root>>}
    /\ fcap.call # NoCap
    /\ fcap.call.op = "read"
    /\ fcap.call.path = <<Nm.tmp, Nm.root2, Nm.sub>>
    /\ fcap.call.raised = "PermissionError: outside allowed paths"

\* the four guards of run, on the capability, the command line and the directory
NameGuard(self, command) ==
    self.allowed_commands = None \/ command[1].text \in self.allowed_commands[1]
OperatorGuard(self, command) ==
    ~self.deny_shell_operators
        \/ \A i \in 1..Len(command) : command[i].is = "operator" => command[i].text \notin blocked
CwdGuard(self, cwd) ==
    self.allowed_cwd = {} \/ \E r \in self.allowed_cwd : Within(resolved_cwd(cwd), r)
PathGuard(self, command, cwd) ==
    self.allowed_paths = {} \/
        \A i \in 1..Len(command) : command[i].is = "path" =>
            \E r \in self.allowed_paths :
                Within(resolve(IF command[i].abs THEN command[i].names
                               ELSE resolved_cwd(cwd) \o command[i].names), r)

\* C19: run calls subprocess.run exactly when the command name, the operator,
\* the directory and the path argument guards all passed, and a refused
\* command raises the permission error of the first guard, in that order,
\* that did not pass.
C19_GuardsBeforeSpawn ==
    (scap.kind = "cmd" /\ scap.call # NoCap) =>
        LET self == scap.parent
            ran == scap.call
            g1 == NameGuard(self, ran.command)
            g2 == OperatorGuard(self, ran.command)
            g3 == CwdGuard(self, ran.cwd)
            g4 == PathGuard(self, ran.command, ran.cwd)
        IN  /\ ran.spawned <=> (g1 /\ g2 /\ g3 /\ g4)
            /\ ran.spawned <=> ran.raised = ""
            /\ ~g1 => ran.raised = "PermissionError: Command not allowed"
            /\ (g1 /\ ~g2) => ran.raised = "PermissionError: Shell operators are not allowed"
            /\ (g1 /\ g2 /\ ~g3) => ran.raised = "PermissionError: Working directory not allowed"
            /\ (g1 /\ g2 /\ g3 /\ ~g4) => ran.raised = "PermissionError: Path argument not allowed"

\* C19 witness: a command whose name is not allowed and which holds an
\* operator, run in a directory that is not allowed, was refused for its name
\* and nothing was started.
C19_Witness ==
    /\ scap.kind = "cmd" /\ scap.call # NoCap
    /\ ~NameGuard(scap.parent, scap.call.command)
    /\ ~OperatorGuard(scap.parent, scap.call.command)
    /\ ~CwdGuard(scap.parent, scap.call.cwd)
    /\ scap.call.raised = "PermissionError: Command not allowed"
    /\ ~scap.call.spawned

\* C20: once a snapshot exported from a worker has been imported into a
\* worker that has just started, state() of the two reports the same function
\* names, the same variables with the same types, and the same history length.
C20_RoundTrip ==
    (rt.kind = "rt" /\ rt.dst # NoCap) =>
        /\ _get_state(rt.dst).defined_functions = _get_state(rt.src).defined_functions
        /\ _get_state(rt.dst).variables = _get_state(rt.src).variables
        /\ _get_state(rt.dst).history_length = _get_state(rt.src).history_length

\* C21: once import_state has returned, every entry of the snapshot is either
\* counted as restored or named in the failure list of its kind, for the
\* functions, the variables and the native capabilities alike; a variable of
\* kind repr is named in variables_failed and is not bound by the import.
C21_EveryEntryAccounted ==
    (rt.kind = "imp" /\ rt.done # NoCap) =>
        LET r == rt.done.results
            s == rt.state
        IN  /\ r.functions_restored + Len(r.functions_failed) = Len(s.functions)
            /\ r.variables_restored + Len(r.variables_failed) = Len(s.variables)
            /\ r.capabilities_restored + Len(r.capabilities_failed)
                  = Len(s.native_capabilities)
            /\ \A i \in DOMAIN s.variables :
                  s.variables[i].type = "repr" =>
                     /\ \E j \in DOMAIN r.variables_failed :
                           r.variables_failed[j] = s.variables[i].name
                     /\ Bound(rt.done.ns, s.variables[i].name)
                           => Bound(rt.m.ns, s.variables[i].name)

\* C22: once import_state has returned, every native capability entry whose
\* source defines a class is registered under its capability name as an
\* instance of that class, list_capabilities reports it with type native, and
\* capabilities_restored counts these entries.
C22_NativeRestored ==
    (rt.kind = "imp" /\ rt.done # NoCap) =>
        LET s == rt.state.native_capabilities
            sourced == {i \in DOMAIN s : ClassOf(s[i].source) # ""}
        IN  /\ \A i \in sourced :
                  /\ Bound(rt.done.caps, s[i].name)
                  /\ Lookup(rt.done.caps, s[i].name) = Instance(ClassOf(s[i].source))
                  /\ \E k \in DOMAIN _list_capabilities(rt.done) :
                        _list_capabilities(rt.done)[k]
                           = [name |-> s[i].name, type |-> "native"]
            /\ rt.done.results.capabilities_restored = Cardinality(sourced)

\* C23: once restore_state has returned success, every relay capability of
\* the loaded state is named in exactly one of relay_reconnected and
\* relay_failed, and every name in relay_reconnected is registered in the hub
\* and bound as a relay capability in the worker.
C23_RelayReported ==
    (rt.kind = "hub" /\ rt.last.op = "restore_state" /\ rt.last.success
        /\ rt.holder = "free" /\ rt.closed = "") =>
        LET In(xs, n) == \E i \in DOMAIN xs : xs[i] = n
        IN  /\ \A i \in DOMAIN rt.loaded :
                  In(rt.last.relay_reconnected, rt.loaded[i].name)
                     # In(rt.last.relay_failed, rt.loaded[i].name)
            /\ \A i \in DOMAIN rt.last.relay_reconnected :
                  /\ rt.backends[rt.last.relay_reconnected[i]] # 0
                  /\ rt.last.relay_reconnected[i] \in rt.relay

\* C24: once install_capability has returned, it has returned success, the
\* hub registry holds the name and the worker has a relay capability bound
\* under it; once the installation from the configuration file has
\* returned, it has installed its servers.
C24_InstallRegisters ==
    /\ (rt.kind = "hub" /\ rt.last.op = "install_capability") =>
          /\ rt.last.success
          /\ rt.backends[rt.last.name] # 0
          /\ rt.last.name \in rt.relay
    /\ (rt.kind = "hub" /\ rt.last.op = "install_from_config") => rt.last.success

\* C26: every backend child that is running belongs to a backend registered
\* in the hub: none is left by uninstall, by close, or by an install whose
\* handshake did not complete.
C26_NoStrayChild ==
    rt.kind = "hub" =>
        \A id \in rt.running : \E n \in HubNames : rt.backends[n] = id

\* C27: once close() or aclose() has returned, no backend is registered, the
\* worker is terminated, and the worker was terminated after the backends
\* were uninstalled.
C27_ShutdownComplete ==
    (rt.kind = "hub" /\ rt.closed # "") =>
        /\ \A n \in HubNames : rt.backends[n] = 0
        /\ ~rt.worker
        /\ \A i \in DOMAIN rt.log, j \in DOMAIN rt.log :
              (rt.log[i].ev = "uninstall" /\ rt.log[j].ev = "terminate") => i < j

\* C28: every install into, uninstall from and call through the hub registry
\* is performed by an operation that holds the runtime mutex at that moment.
C28_RegistryUnderMutex ==
    rt.kind = "hub" =>
        \A i \in DOMAIN rt.log :
            rt.log[i].ev \in {"install", "uninstall", "call"} =>
                rt.log[i].holder = rt.log[i].by

\* this step is uninstall_capability of client c returning from hub.uninstall
Uninstalls(c) ==
    /\ pc[c] = "uninstall"
    /\ req[c].op = "uninstall_capability"
    /\ pc'[c] # pc[c]

\* this step is the host answering a relay request for a capability that the
\* hub has no backend for
AnswersUninstalled(c) ==
    /\ pc[c] = "relay"
    /\ pc'[c] # pc[c]
    /\ wk[req[c].tgt].handler
    /\ backends[pend[c].cap] = 0

\* this step is worker w taking the answer to a method call on a capability
\* object whose backend is not installed
TakesNotInstalled(w) ==
    /\ TakesFailure(w)
    /\ Program(wk[w].cur.code).steps[wk[w].ip].k = "cap"
    /\ Head(wk[w].stdin).emsg = "not installed"

\* what uninstall_capability does: success exactly when the name was
\* registered, the name is off the registry, the worker is left as it is; and
\* the host answers a call on an uninstalled capability with a failure
UninstallAndAnswer ==
    /\ \A c \in Clients :
          Uninstalls(c) =>
              /\ rsp'[c].kind = "result"
              /\ rsp'[c].ok = (backends["math"] # 0)
              /\ backends'["math"] = 0
              /\ wk' = wk
    /\ \A c \in Clients :
          AnswersUninstalled(c) =>
              /\ pc'[c] = "await"
              /\ Last(wk'[req[c].tgt].stdin).type = "relay_response"
              /\ ~Last(wk'[req[c].tgt].stdin).ok
              /\ Last(wk'[req[c].tgt].stdin).emsg = "not installed"

\* C25 as stated: uninstall_capability returns success exactly when the name
\* was registered and takes it off the registry, the capability stays bound
\* in the worker, and a later call on it is answered and ends the execute
\* around it with success=false, worker and host in sync.
C25_UninstalledCallFailsExecute ==
    [][/\ UninstallAndAnswer
       /\ \A w \in Workers :
             TakesNotInstalled(w) => FailsInSync(w, "not installed")]_vars

\* C25 amended: the same, but the failed call is an error raised in the
\* calling code: code that does not catch it ends in a failed execute result,
\* code that catches it runs on.
C25_UninstalledCallRaises ==
    [][/\ UninstallAndAnswer
       /\ \A w \in Workers :
             TakesNotInstalled(w) =>
                 IF Program(wk[w].cur.code).catches
                 THEN /\ wk'[w].wpc = "run"
                      /\ wk'[w].ip = wk[w].ip + 1
                      /\ wk'[w].stdin = <<>>
                      /\ wk'[w].stdout = <<>>
                 ELSE FailsInSync(w, "not installed")]_vars

\* C25 witness: uninstall_capability has taken a registered backend off the
\* registry, the capability is still bound in the worker, and an execute that
\* called it has failed with the hub's message.
C25_Witness ==
    \E w \in Workers :
        /\ backends["math"] = 0
        /\ nInstalls > 0
        /\ "math" \in wk[w].caps
        /\ wk[w].stdout # <<>>
        /\ Last(wk[w].stdout).type = "execute_result"
        /\ ~Last(wk[w].stdout).ok
        /\ Last(wk[w].stdout).emsg = "not installed"

\* C29: load(n) returns the functions, variables, capabilities and history of
\* the state last saved under n, and none when nothing was saved under n or
\* it was deleted since; delete(n) returns true exactly when a state was kept
\* under n, and after it n is no longer listed.
C29_StoreRoundTrip ==
    rt.kind = "store" =>
        /\ \A n \in StoreNames :
              IF rt.kept[n] = NoFile THEN load(rt.files, n) = NoFile
              ELSE /\ load(rt.files, n) # NoFile
                   /\ Content(load(rt.files, n)[1]) = rt.kept[n][1]
        /\ rt.last.op = "delete" =>
              /\ rt.last.ret = rt.last.existed
              /\ _get_state_path(rt.last.name) \notin list_states(rt.files)

\* this step is worker w going on with the command it serves, the host not
\* replacing or closing any worker
ServesOn(w) ==
    /\ wk[w].alive
    /\ wk[w].wpc \in {"run", "relay"}
    /\ wk'[w] # wk[w]
    /\ nWorkers' = nWorkers

\* C30: a worker that serves a command stays alive; when it has served the
\* command it has written one response record for it; code that raised gives
\* an execute result with success=false, error_type and error_message set;
\* what earlier commands bound stays bound.
C30_OneRecordLoopGoesOn ==
    [][\A w \in Workers :
          ServesOn(w) =>
              /\ wk'[w].alive
              /\ wk[w].ns \subseteq wk'[w].ns
              /\ wk'[w].wpc = "idle" =>
                    /\ wk'[w].stdout # <<>>
                    /\ Last(wk'[w].stdout).type
                          \in {"execute_result", "import_result", "error"}
                    /\ Last(wk'[w].stdout).seq = wk[w].cur.seq
                    /\ (wk[w].cur.type = "execute"
                          /\ Program(wk[w].cur.code).outcome = "raise") =>
                          /\ ~Last(wk'[w].stdout).ok
                          /\ Last(wk'[w].stdout).etype # ""
                          /\ Last(wk'[w].stdout).emsg # ""]_vars

\* C40: a save or delete under a name A leaves what load(B) returns as it
\* was for every other name B, and after a save under A the name A is among
\* the names list_states reports.
C40_NameIsolation ==
    [][(rt.kind = "store" /\ rt'.last.op \in {"save", "delete"} /\ rt'.n # rt.n) =>
          /\ \A B \in StoreNames \ {rt'.last.name} :
                load(rt'.files, B) = load(rt.files, B)
          /\ rt'.last.op = "save" => rt'.last.name \in list_states(rt'.files)]_vars

\* the positions of the history blocks that hold a definition of exactly name
DefinedAt(name, hist) == {i \in DOMAIN hist : name \in DefLines(hist[i])}

\* C38: every function entry of an exported snapshot carries as its source
\* the most recent history block that defines exactly the entry's name, never
\* a block that only defines a longer name starting with it.
C38_SourceOfExactName ==
    (rt.kind = "rt" /\ rt.snap # NoCap) =>
        \A f \in rt.snap.functions :
            /\ DefinedAt(f.name, rt.src.hist) # {}
            /\ f.source = rt.src.hist[CHOOSE i \in DefinedAt(f.name, rt.src.hist) :
                                        \A j \in DefinedAt(f.name, rt.src.hist) : j <= i]

\* C31: the history grows by exactly the executed code for an execute that
\* succeeds; an execute that fails, ping, state, list_capabilities,
\* register_capability, inject and export_state leave it as it was; after
\* import_state of a snapshot it is the snapshot's history, whatever it was
\* before.
C31_HistoryFollowsExecutes ==
    [][(rt.kind = "loop" /\ rt'.n # rt.n) =>
          /\ (rt'.last.op = "execute" /\ rt'.last.ok) =>
                rt'.m.hist = Append(rt.m.hist, rt'.last.arg)
          /\ (rt'.last.op = "execute" /\ ~rt'.last.ok) => rt'.m.hist = rt.m.hist
          /\ rt'.last.op \in {"ping", "state", "list_capabilities", "export_state",
                              "register_capability", "inject",
                              "inject_relay_capability"} => rt'.m.hist = rt.m.hist
          /\ rt'.last.op = "import_state" => rt'.m.hist = rt'.last.arg]_vars

\* C31 witness: an import on a worker with two commands in its history left
\* a history of one.
C31_Witness ==
    /\ rt.kind = "loop"
    /\ rt.last.op = "import_state"
    /\ rt.last.before = 2
    /\ Len(rt.m.hist) = 1

\* C39: describe_capability, from the tool endpoint and from an attach
\* client, leaves the bindings of the worker's namespace and the length of
\* its history as they were, whatever name it is given.
C39_DescribeReadOnly ==
    [][(rt.kind = "loop" /\ rt'.n # rt.n
          /\ rt'.last.op \in {"describe_capability:tool", "describe_capability:attach"}) =>
          /\ rt'.m.ns = rt.m.ns
          /\ Len(rt'.m.hist) = Len(rt.m.hist)]_vars

\* what the words named in the claim yield
Yield(word) ==
    CASE word = Tok.LongFlagPath -> <<<<"/", "a", "/", "b">>>>
      [] word = Tok.ShortFlagPath -> <<<<"/", "a", "/", "b">>>>
      [] word = Tok.DotPath -> <<Tok.DotPath>>
      [] word = Tok.HomePath -> <<Tok.HomePath>>
      [] OTHER -> <<>>

\* the directory a path text of the claim's words stands for under cwd
Stands(text, cwd) ==
    CASE text = <<"/", "a", "/", "b">> -> <<<<"a">>, <<"b">>>>
      [] text = Tok.DotPath -> cwd \o <<<<"a">>, <<"b">>>>
      [] OTHER -> <<<<"h">>, <<"a">>>>

\* what a list of the claim's words yields
RECURSIVE Yields(_)
Yields(words) == IF words = <<>> THEN <<>> ELSE Yield(Head(words)) \o Yields(Tail(words))

ClaimWords == {Tok.LongFlagPath, Tok.ShortFlagPath, Tok.DotPath, Tok.HomePath, Tok.LongFlag}

\* C33: from the words --file=/a/b and -f/a/b the guard extracts /a/b, from
\* ./a/b and ~/a the word itself, from --help nothing; and with a path
\* allowlist set, the command is refused when one of the extracted paths,
\* taken against the directory the command runs in, is neither an allowed
\* root nor below one.
C33_PathArgsGuarded ==
    (rt.kind = "guard" /\ rt.args # NoCap
       /\ \A i \in 1..Len(rt.args.words) : rt.args.words[i] \in ClaimWords) =>
        /\ rt.args.paths = Yields(rt.args.words)
        /\ (rt.call # NoCap /\ rt.allowed_paths # {}) =>
              ((\E i \in 1..Len(rt.args.paths) :
                   \A allowed \in rt.allowed_paths :
                       ~startswith(Stands(rt.args.paths[i], rt.call.cwd), allowed))
                 => rt.call.refused)

\* C33 witness: a command with the words -f/a/b and ./a/b, run in an allowed
\* directory, was refused for the first of the two paths.
C33_Witness ==
    /\ rt.kind = "guard" /\ rt.args # NoCap /\ rt.call # NoCap
    /\ rt.args.words = <<Tok.ShortFlagPath, Tok.DotPath>>
    /\ rt.args.paths = <<<<"/", "a", "/", "b">>, Tok.DotPath>>
    /\ rt.allowed_paths = {<<Nm.tmp, Nm.root>>}
    /\ rt.call.cwd = <<Nm.tmp, Nm.root>>
    /\ rt.call.refused

\* matching by path components: "*" stands for one component, a run of at
\* least one character without "/", and "**" for any run of characters
RECURSIVE GlobMatch(_, _)
GlobMatch(name, pat) ==
    IF pat = <<>> THEN name = <<>>
    ELSE IF Head(pat) = "**"
    THEN \E k \in 0..Len(name) : GlobMatch(SubSeq(name, k + 1, Len(name)), Tail(pat))
    ELSE IF Head(pat) = "*"
    THEN \E k \in 1..Len(name) :
            /\ \A j \in 1..k : name[j] # "/"
            /\ GlobMatch(SubSeq(name, k + 1, Len(name)), Tail(pat))
    ELSE name # <<>> /\ Head(name) = Head(pat) /\ GlobMatch(Tail(name), Tail(pat))

\* C34: covers answers as matching by path components does, a single "*"
\* standing for exactly one component and "**" for any number of them; and
\* child.is_subset_of(parent) is true exactly when the parent covers every
\* resource the child covers and the child spawns only if the parent does.
C34_GlobByComponents ==
    rt.kind = "glob" =>
        /\ (rt.match # NoCap /\ \A i \in 1..Len(rt.match.pattern) : rt.match.pattern[i] # "?") =>
              rt.match.covered = GlobMatch(rt.match.resource, rt.match.pattern)
        /\ rt.subset # NoCap =>
              rt.subset.result =
                 (/\ rt.subset.child.spawns => rt.subset.parent.spawns
                  /\ \A resource \in GlobResources :
                        covers(rt.subset.child, "reads", resource)
                           => covers(rt.subset.parent, "reads", resource))

\* C32: on one attach connection every line the handler has taken, whatever
\* it held, has been answered by exactly one response line, the responses
\* are in the order of the requests, and the connection is still open for
\* the next line.
C32_OneResponsePerLine ==
    rt.kind = "conn" =>
        /\ rt.open
        /\ Len(rt.out) = rt.read
        /\ \A i \in 1..Len(rt.out) : rt.out[i].line = i

\* C37: whenever the runtime mutex is free and the worker the runtime owns
\* is running, every backend registered in the hub has a relay capability of
\* its name bound in that worker. Checked from the state an aborted import
\* leaves behind, where restore_state takes the stale result lines for its
\* own and returns before the worker has read the injection.
C37_RegisteredIsBound ==
    (lock = NoOne /\ wk[runtime_repl].alive) =>
        \A n \in CapNames : backends[n] # 0 => n \in wk[runtime_repl].caps
\* C36: after any sequence of resets and executes the runtime owns at most
\* one live worker: every process it has spawned other than the current
\* runtime.repl has been terminated.
C36_OneLiveWorker ==
    rt.kind = "reset" =>
        \A i \in 1..Len(rt.procs) : i # rt.runtime_repl => ~rt.procs[i].alive
\* a step of a tool call that is in flight
Proceeds ==
    \E t \in Tasks : E_begin(t) \/ E_io(t) \/ E_resume(t) \/ E_wake(t)

\* C35: no deadlock at the tool endpoint: while tool calls are in flight,
\* the asynchronous ones that await hub work under the mutex included, one
\* of them can take its next step towards acquiring the mutex, completing
\* and releasing it.
C35_ToolsProceed ==
    rt.kind = "tools" =>
        ((\E t \in Tasks : rt.tpc[t] \notin {"idle", "done"}) => ENABLED Proceeds)

=============================================================================
